---- MODULE Spec2Model ----
(***************************************************************************)
(* A model of the profile switching engine of tokyo (package profile):     *)
(* Save, Switch, Current and Delete over a small filesystem made of the    *)
(* managed live config files, the profile store and the marker             *)
(* current.json.  Switch is modelled step by step (stage, backup, commit,  *)
(* marker write, rollback, deferred cleanup) so that I/O faults and a kill *)
(* of the process can happen between any two of its filesystem calls.      *)
(***************************************************************************)
EXTENDS Integers, Sequences, FiniteSets, TLC

\* ------------------------------------------------------------------ bounds

\* I/O faults injected into the rollback of one Switch call.
MaxRollbackFaults == 1
\* Switch calls killed before they return.
MaxKills == 1

\* ------------------------------------------------------------- the tool

\* CodexTool().ConfigRelPaths has two entries: config.toml and auth.json.
NFiles == 2
Files == 1..NFiles

\* const maxLen = 64 in ValidateProfileName.
maxLen == 64

\* Profile names given to the operations: two valid ones and invalid ones.
Names == {"p", "q"}
InvalidNames == {"<custom>"}
InputNames == Names \cup InvalidNames
\* The profile names of TestListProfiles.
ListNames == {"work", "personal", "alpha"}

\* Names at the length limit and one past it.
Long64 == "aaaaaaaaaaaaaaaaaaaaaaaaaaaaaaaaaaaaaaaaaaaaaaaaaaaaaaaaaaaaaaaa"
Long65 == "aaaaaaaaaaaaaaaaaaaaaaaaaaaaaaaaaaaaaaaaaaaaaaaaaaaaaaaaaaaaaaaaa"
\* Names ValidateProfileName has to reject, one of each kind; the last
\* character of the last one is U+00E9, written here by its code point.
BadNames ==
    {"<custom>", "", " ", " p", "p ", "a b", ".p", "a/b", "p (modified)",
     Long65, "caf<U+00E9>"}
\* The names the operations are called with when names are what is tested.
NamedInputs == {"p", Long64} \cup BadNames

Repeat(ch, n) == [i \in 1..n |-> ch]

\* The characters of each input name (TLC cannot index into a string).
NameChars(profile) ==
    CASE profile = "p" -> <<"p">>
      [] profile = "q" -> <<"q">>
      [] profile = Long64 -> Repeat("a", maxLen)
      [] profile = Long65 -> Repeat("a", maxLen + 1)
      [] profile = " " -> <<" ">>
      [] profile = " p" -> <<" ", "p">>
      [] profile = "p " -> <<"p", " ">>
      [] profile = "a b" -> <<"a", " ", "b">>
      [] profile = ".p" -> <<".", "p">>
      [] profile = "a/b" -> <<"a", "/", "b">>
      [] profile = "p (modified)" ->
           <<"p", " ", "(", "m", "o", "d", "i", "f", "i", "e", "d", ")">>
      [] profile = "caf<U+00E9>" -> <<"c", "a", "f", "U+00E9">>
      [] profile = "<custom>" -> <<"<", "c", "u", "s", "t", "o", "m", ">">>
      [] profile = "" -> <<>>
      [] profile = "work" -> <<"w", "o", "r", "k">>
      [] profile = "personal" -> <<"p", "e", "r", "s", "o", "n", "a", "l">>
      [] profile = "alpha" -> <<"a", "l", "p", "h", "a">>
      [] OTHER -> <<>>

\* -------------------------------------------------------- filesystem nodes

\* File contents are byte strings; users write the non-empty ones.
Contents == {<<1>>, <<2>>}
\* What a symlink planted at a managed path points to.
LinkContents == {<<2>>}

Node(k, c) == [k |-> k, c |-> c]
Absent == Node("absent", <<>>)
File(c) == Node("file", c)
Symlink(c) == Node("symlink", c)
Dir == Node("dir", <<>>)
Other == Node("other", <<>>)

\* The bytes of current.json: json.Marshal(currentState{Profile: profile}),
\* or bytes that are not JSON at all.
Marshal(profile) == [json |-> TRUE, profile |-> profile]
Garbage == [json |-> FALSE, profile |-> ""]
MarkerAbsent == Node("absent", Garbage)

\* What killed Switch calls left on disk: how many calls were killed, the
\* staged files and rollback directories they left, where the last one was.
NoStale == [kills |-> 0, stage |-> 0, rollback |-> 0, at |-> <<"", 0>>]

NoFiles == [i \in Files |-> Absent]
NoDir == [exists |-> FALSE, files |-> NoFiles]
EmptyDir == [exists |-> TRUE, files |-> NoFiles]

\* ------------------------------------------------- filesystem primitives

\* A variant that stats through links (os.Stat): a symlink to a regular
\* file passes.
ensureRegularFile_Stat(node) ==
    CASE node.k = "absent" -> "NotExist"
      [] node.k = "dir" -> "ErrExpectedFileIsDir"
      [] node.k = "other" -> "ErrExpectedRegularFile"
      [] OTHER -> "nil"

\* ensureRegularFile: Lstat, no symlink, no directory, regular.
ensureRegularFile(node) ==
    CASE node.k = "absent" -> "NotExist"
      [] node.k = "symlink" -> "ErrSymlinkNotAllowed"
      [] node.k = "dir" -> "ErrExpectedFileIsDir"
      [] node.k = "other" -> "ErrExpectedRegularFile"
      [] OTHER -> "nil"

\* ensureRegularFileIfExists: a missing path is (false, nil).
ensureRegularFileIfExists(node) ==
    IF node.k = "absent"
    THEN [exists |-> FALSE, err |-> "nil"]
    ELSE [exists |-> TRUE, err |-> ensureRegularFile(node)]

rejectNonRegularFile(node) == ensureRegularFileIfExists(node).err

\* copyFile(src, dst) without an I/O fault: the error and the node at dst.
copyFile(src, dst) ==
    IF ensureRegularFile(src) # "nil"
    THEN [err |-> ensureRegularFile(src), dst |-> dst]
    ELSE IF rejectNonRegularFile(dst) # "nil"
    THEN [err |-> rejectNonRegularFile(dst), dst |-> dst]
    ELSE [err |-> "nil", dst |-> File(src.c)]

\* copyFileToFile(src, tmp): the error and the bytes written to tmp.
copyFileToFile(src) ==
    IF ensureRegularFile(src) # "nil"
    THEN [err |-> ensureRegularFile(src), c |-> <<>>]
    ELSE [err |-> "nil", c |-> src.c]

\* info.Size() and fileHash (SHA-256, taken to be collision free here).
Size(c) == Len(c)
fileHash(c) == c

\* A variant that stops at the size comparison.
filesEqual_SizeOnly(a, b) ==
    IF ensureRegularFile(a) # "nil"
    THEN [err |-> ensureRegularFile(a), same |-> FALSE]
    ELSE IF ensureRegularFile(b) # "nil"
    THEN [err |-> ensureRegularFile(b), same |-> FALSE]
    ELSE [err |-> "nil", same |-> Size(a.c) = Size(b.c)]

\* filesEqual: both regular, same size, same hash.
filesEqual(a, b) ==
    IF ensureRegularFile(a) # "nil"
    THEN [err |-> ensureRegularFile(a), same |-> FALSE]
    ELSE IF ensureRegularFile(b) # "nil"
    THEN [err |-> ensureRegularFile(b), same |-> FALSE]
    ELSE IF Size(a.c) # Size(b.c)
    THEN [err |-> "nil", same |-> FALSE]
    ELSE [err |-> "nil", same |-> fileHash(a.c) = fileHash(b.c)]

\* readCurrentProfile: os.ReadFile follows a symlink; a missing file is "".
readCurrentProfile(marker) ==
    CASE marker.k = "absent" -> [err |-> "nil", profile |-> ""]
      [] marker.k \in {"dir", "other"} -> [err |-> "io", profile |-> ""]
      [] OTHER ->
           IF marker.c.json
           THEN [err |-> "nil", profile |-> marker.c.profile]
           ELSE [err |-> "json", profile |-> ""]

\* A variant that renames over whatever node is at the path.
writeFileAtomic_NoReject(node, data, fault) ==
    IF fault
    THEN [err |-> "io", node |-> node]
    ELSE [err |-> "nil", node |-> Node("file", data)]

\* writeFileAtomic on the marker path: reject a non-regular destination,
\* write a temporary file, rename it over the path, check the result.
writeFileAtomic(node, data, fault) ==
    IF rejectNonRegularFile(node) # "nil"
    THEN [err |-> rejectNonRegularFile(node), node |-> node]
    ELSE IF fault
    THEN [err |-> "io", node |-> node]
    ELSE [err |-> ensureRegularFile(Node("file", data)),
          node |-> Node("file", data)]

writeCurrentProfile(marker, profile, fault) ==
    writeFileAtomic(marker, Marshal(profile), fault)

\* ---------------------------------------------------- ValidateProfileName

Whitespace == {" ", "\t", "\n", "\r"}
Allowed ==
    {"a", "b", "c", "d", "e", "f", "g", "h", "i", "j", "k", "l", "m", "n",
     "o", "p", "q", "r", "s", "t", "u", "v", "w", "x", "y", "z",
     "A", "B", "C", "D", "E", "F", "G", "H", "I", "J", "K", "L", "M", "N",
     "O", "P", "Q", "R", "S", "T", "U", "V", "W", "X", "Y", "Z",
     "0", "1", "2", "3", "4", "5", "6", "7", "8", "9", "-", "_"}
ModifiedSuffix == <<" ", "(", "m", "o", "d", "i", "f", "i", "e", "d", ")">>
CustomChars == <<"<", "c", "u", "s", "t", "o", "m", ">">>
\* Characters outside ASCII, and the bytes each character takes in UTF-8.
NonAscii == {"U+00E9"}
Utf8Len(ch) == IF ch \in NonAscii THEN 2 ELSE 1

RECURSIVE ByteLen(_)
\* len(profile): the length in bytes.
ByteLen(s) == IF s = <<>> THEN 0 ELSE Utf8Len(Head(s)) + ByteLen(Tail(s))

HasSuffix(s, suffix) ==
    /\ Len(s) >= Len(suffix)
    /\ SubSeq(s, Len(s) - Len(suffix) + 1, Len(s)) = suffix

\* A variant without the loop over the characters.
ValidateChars_NoCharset(s) ==
    /\ \E i \in 1..Len(s) : s[i] \notin Whitespace
    /\ s[1] \notin Whitespace /\ s[Len(s)] \notin Whitespace
    /\ ByteLen(s) <= maxLen
    /\ s # CustomChars
    /\ ~HasSuffix(s, ModifiedSuffix)
    /\ s[1] # "."
    /\ \A i \in 1..Len(s) : s[i] # "/"

\* A variant that checks only that the name is not blank, has no blank at
\* its ends and is not too long.
ValidateChars_LengthOnly(s) ==
    /\ \E i \in 1..Len(s) : s[i] \notin Whitespace
    /\ s[1] \notin Whitespace /\ s[Len(s)] \notin Whitespace
    /\ ByteLen(s) <= maxLen

\* ValidateProfileName on the characters of the name: TRUE when the name is
\* accepted (the function returns nil).
ValidateChars(s) ==
    /\ \E i \in 1..Len(s) : s[i] \notin Whitespace
    /\ s[1] \notin Whitespace /\ s[Len(s)] \notin Whitespace
    /\ ByteLen(s) <= maxLen
    /\ s # CustomChars
    /\ ~HasSuffix(s, ModifiedSuffix)
    /\ s[1] # "."
    /\ \A i \in 1..Len(s) : s[i] # "/"
    /\ \A i \in 1..Len(s) : s[i] \in Allowed

ValidateProfileName(profile) == ValidateChars(NameChars(profile))

\* ------------------------------------------------------------------ state

VARIABLES
    fs,       \* the filesystem: live files, profile store, marker, temporaries
    sw,       \* the running Switch call: its position and local variables;
              \* sw.saves holds the Save calls running side by side
    last,     \* the operation that returned last, with what it returned
    pre,      \* the filesystem when the last operation was called
    since     \* the last successful Switch, while only live bytes changed since

vars == <<fs, sw, last, pre, since>>

\* fs.live[i]      the managed live config file i (declared order)
\* fs.liveDir      whether the directory of the live files exists
\* fs.profilesDir  whether the directory of the profile directories exists
\* fs.profiles[n]  the profile directory n and its files (by base name)
\* fs.marker       current.json
\* fs.tmp[i]       the staged temporary file of the running Switch for file i
\* fs.rb           the rollback directory of the running Switch
\* fs.stale        temporaries left behind by killed Switch calls
Idle ==
    [pc |-> "idle", profile |-> "", previousProfile |-> "",
     previousProfileKnown |-> FALSE, i |-> 1,
     stageFiles |-> [i \in Files |-> FALSE], rollbackDir |-> FALSE,
     rollbackEntries |-> <<>>, err |-> "nil", at |-> <<"", 0>>,
     rollbackErr |-> {}, saves |-> <<>>]

NoLast ==
    [op |-> "none", profile |-> "", force |-> FALSE, err |-> "nil",
     path |-> 0, at |-> <<"", 0>>, rollbackErr |-> {}, out |-> "",
     cleared |-> FALSE, list |-> <<>>, chars |-> <<>>,
     tool |-> "", status |-> 0, prev |-> <<>>]

NoSince ==
    [valid |-> FALSE, profile |-> "", bytes |-> [i \in Files |-> <<>>],
     saved |-> <<>>, failed |-> "", targets |-> {}]

\* ----------------------------------------------------------------- Switch

\* cleanupStageFiles: remove every staged file still in the map.
cleanupStageFiles(tmp, stageFiles) ==
    [i \in Files |-> IF stageFiles[i] THEN Absent ELSE tmp[i]]

\* The loop index moves on, or the loop ends and the next phase starts.
Advance(f, next) ==
    IF f.i < NFiles
    THEN [f EXCEPT !.i = f.i + 1]
    ELSE [f EXCEPT !.i = 1, !.pc = next]

\* The call fails with err at its current position and goes on at pc next.
Fail(f, next, err) ==
    [f EXCEPT !.pc = next, !.err = err, !.at = <<f.pc, f.i>>]

Return(f, err) == Fail(f, "done", err)

\* A variant that does not stat the profile directory before staging.
SwitchStart_NoStat(w, f) ==
    LET cur == readCurrentProfile(w.marker)
        g == [f EXCEPT !.previousProfile =
                           IF cur.err = "nil" THEN cur.profile ELSE "",
                       !.previousProfileKnown = (cur.err = "nil")]
    IN  IF ~ValidateProfileName(f.profile)
        THEN [w |-> w, f |-> Return(f, "validation")]
        ELSE [w |-> w, f |-> [g EXCEPT !.pc = "stage", !.i = 1]]

\* A variant that writes the marker before it stats the profile directory.
SwitchStart_MarkerFirst(w, f) ==
    LET cur == readCurrentProfile(w.marker)
        g == [f EXCEPT !.previousProfile =
                           IF cur.err = "nil" THEN cur.profile ELSE "",
                       !.previousProfileKnown = (cur.err = "nil")]
        wr == writeCurrentProfile(w.marker, f.profile, FALSE)
        w1 == IF wr.err = "nil" THEN [w EXCEPT !.marker = wr.node] ELSE w
    IN  IF ~ValidateProfileName(f.profile)
        THEN [w |-> w, f |-> Return(f, "validation")]
        ELSE IF ~w.profiles[f.profile].exists
        THEN [w |-> w1, f |-> Return(g, "ErrProfileNotFound")]
        ELSE [w |-> w, f |-> [g EXCEPT !.pc = "stage", !.i = 1]]

\* Switch up to the staging: validate the name, read the marker for the
\* rollback, stat the profile directory.
SwitchStart(w, f) ==
    LET cur == readCurrentProfile(w.marker)
        g == [f EXCEPT !.previousProfile =
                           IF cur.err = "nil" THEN cur.profile ELSE "",
                       !.previousProfileKnown = (cur.err = "nil")]
    IN  IF ~ValidateProfileName(f.profile)
        THEN [w |-> w, f |-> Return(f, "validation")]
        ELSE IF ~w.profiles[f.profile].exists
        THEN [w |-> w, f |-> Return(g, "ErrProfileNotFound")]
        ELSE [w |-> w, f |-> [g EXCEPT !.pc = "stage", !.i = 1]]

\* A variant that stages the profile's first file for every pair.
stageProfileFiles_WrongSrc(w, f, fault) ==
    LET cp == copyFileToFile(w.profiles[f.profile].files[1])
        w1 == [w EXCEPT !.liveDir = TRUE]
        cleaned == [w1 EXCEPT !.tmp = cleanupStageFiles(w.tmp, f.stageFiles)]
    IN  IF fault
        THEN [w |-> cleaned, f |-> Return(f, "io")]
        ELSE IF cp.err # "nil"
        THEN [w |-> cleaned,
              f |-> Return(f, IF cp.err = "NotExist"
                              THEN "ErrProfileMissingFile" ELSE cp.err)]
        ELSE [w |-> [w1 EXCEPT !.tmp[f.i] = File(cp.c)],
              f |-> Advance([f EXCEPT !.stageFiles[f.i] = TRUE], "mkrb")]

\* A variant that returns the error of the copy as it is.
stageProfileFiles_RawError(w, f, fault) ==
    LET src == w.profiles[f.profile].files[f.i]
        cp == copyFileToFile(src)
        w1 == [w EXCEPT !.liveDir = TRUE]
        cleaned == [w1 EXCEPT !.tmp = cleanupStageFiles(w.tmp, f.stageFiles)]
    IN  IF fault
        THEN [w |-> cleaned, f |-> Return(f, "io")]
        ELSE IF cp.err # "nil"
        THEN [w |-> cleaned, f |-> Return(f, cp.err)]
        ELSE [w |-> [w1 EXCEPT !.tmp[f.i] = File(cp.c)],
              f |-> Advance([f EXCEPT !.stageFiles[f.i] = TRUE], "mkrb")]

\* A variant that moves the profile's file to the staged path instead of
\* copying it.
stageProfileFiles_Move(w, f, fault) ==
    LET src == w.profiles[f.profile].files[f.i]
        cp == copyFileToFile(src)
        w1 == [w EXCEPT !.liveDir = TRUE]
        cleaned == [w1 EXCEPT !.tmp = cleanupStageFiles(w.tmp, f.stageFiles)]
    IN  IF fault
        THEN [w |-> cleaned, f |-> Return(f, "io")]
        ELSE IF cp.err # "nil"
        THEN [w |-> cleaned,
              f |-> Return(f, IF cp.err = "NotExist"
                              THEN "ErrProfileMissingFile" ELSE cp.err)]
        ELSE [w |-> [w1 EXCEPT !.tmp[f.i] = File(cp.c),
                               !.profiles[f.profile].files[f.i] = Absent],
              f |-> Advance([f EXCEPT !.stageFiles[f.i] = TRUE], "mkrb")]

\* stageProfileFiles, one pair: create the directory of the live file and a
\* temporary file in it, copy the profile's file into it.  On an error the
\* temporary files made so far are removed and Switch returns.
stageProfileFiles(w, f, fault) ==
    LET src == w.profiles[f.profile].files[f.i]
        cp == copyFileToFile(src)
        w1 == [w EXCEPT !.liveDir = TRUE]
        cleaned == [w1 EXCEPT !.tmp = cleanupStageFiles(w.tmp, f.stageFiles)]
    IN  IF fault
        THEN [w |-> cleaned, f |-> Return(f, "io")]
        ELSE IF cp.err # "nil"
        THEN [w |-> cleaned,
              f |-> Return(f, IF cp.err = "NotExist"
                              THEN "ErrProfileMissingFile" ELSE cp.err)]
        ELSE [w |-> [w1 EXCEPT !.tmp[f.i] = File(cp.c)],
              f |-> Advance([f EXCEPT !.stageFiles[f.i] = TRUE], "mkrb")]

\* A variant that makes the directory under a fixed name with os.Mkdir,
\* which fails when a killed call left its directory behind.
createRollbackDir_FixedName(w, f, fault) ==
    IF fault \/ w.stale.rollback > 0
    THEN [w |-> w, f |-> Fail(f, "cleanup", "io")]
    ELSE [w |-> [w EXCEPT !.rb = EmptyDir],
          f |-> [f EXCEPT !.pc = "backup", !.i = 1, !.rollbackDir = TRUE]]

\* createRollbackDir: os.MkdirTemp under the tool's directory.
createRollbackDir(w, f, fault) ==
    IF fault
    THEN [w |-> w, f |-> Fail(f, "cleanup", "io")]
    ELSE [w |-> [w EXCEPT !.rb = EmptyDir],
          f |-> [f EXCEPT !.pc = "backup", !.i = 1, !.rollbackDir = TRUE]]

\* A variant that moves the live file into the rollback directory instead
\* of copying it.
backupCurrentFiles_Move(w, f, fault) ==
    LET st == ensureRegularFileIfExists(w.live[f.i])
        cp == copyFile(w.live[f.i], w.rb.files[f.i])
    IN  IF st.err # "nil"
        THEN [w |-> w, f |-> Fail(f, "cleanup", st.err)]
        ELSE IF ~st.exists
        THEN [w |-> w,
              f |-> Advance([f EXCEPT !.rollbackEntries =
                                 Append(@, [existed |-> FALSE])], "commit")]
        ELSE IF fault
        THEN [w |-> w, f |-> Fail(f, "cleanup", "io")]
        ELSE IF cp.err # "nil"
        THEN [w |-> w, f |-> Fail(f, "cleanup", cp.err)]
        ELSE [w |-> [w EXCEPT !.rb.files[f.i] = cp.dst, !.live[f.i] = Absent],
              f |-> Advance([f EXCEPT !.rollbackEntries =
                                 Append(@, [existed |-> TRUE])], "commit")]

\* backupCurrentFiles, one pair: record an absent live file, or copy the
\* live file into the rollback directory.
backupCurrentFiles(w, f, fault) ==
    LET st == ensureRegularFileIfExists(w.live[f.i])
        cp == copyFile(w.live[f.i], w.rb.files[f.i])
    IN  IF st.err # "nil"
        THEN [w |-> w, f |-> Fail(f, "cleanup", st.err)]
        ELSE IF ~st.exists
        THEN [w |-> w,
              f |-> Advance([f EXCEPT !.rollbackEntries =
                                 Append(@, [existed |-> FALSE])], "commit")]
        ELSE IF fault
        THEN [w |-> [w EXCEPT !.rb.files[f.i] = File(<<>>)],
              f |-> Fail(f, "cleanup", "io")]
        ELSE IF cp.err # "nil"
        THEN [w |-> w, f |-> Fail(f, "cleanup", cp.err)]
        ELSE [w |-> [w EXCEPT !.rb.files[f.i] = cp.dst],
              f |-> Advance([f EXCEPT !.rollbackEntries =
                                 Append(@, [existed |-> TRUE])], "commit")]

\* os.Rename(stagePath, pair.dst): replaces the node at dst in one step; it
\* fails when the staged file is gone or dst is a directory.
RenameFails(w, i, fault) ==
    fault \/ w.tmp[i].k = "absent" \/ w.live[i].k = "dir"

\* A variant that returns the rename error without rolling back.
SwitchCommit_NoRollback(w, f, fault) ==
    IF RenameFails(w, f.i, fault)
    THEN [w |-> w, f |-> Fail(f, "cleanup", "io")]
    ELSE [w |-> [w EXCEPT !.live[f.i] = w.tmp[f.i], !.tmp[f.i] = Absent],
          f |-> Advance([f EXCEPT !.stageFiles[f.i] = FALSE], "marker")]

\* A variant that writes the marker with the first rename.
SwitchCommit_MarkerFirst(w, f, fault) ==
    IF RenameFails(w, f.i, fault)
    THEN [w |-> w, f |-> [Fail(f, "restore", "io") EXCEPT !.i = 1]]
    ELSE [w |-> [w EXCEPT !.live[f.i] = w.tmp[f.i], !.tmp[f.i] = Absent,
                          !.marker = writeCurrentProfile(
                                         w.marker, f.profile, FALSE).node],
          f |-> Advance([f EXCEPT !.stageFiles[f.i] = FALSE], "marker")]

\* The commit loop of Switch, one pair.
SwitchCommit(w, f, fault) ==
    IF RenameFails(w, f.i, fault)
    THEN [w |-> w, f |-> [Fail(f, "restore", "io") EXCEPT !.i = 1]]
    ELSE [w |-> [w EXCEPT !.live[f.i] = w.tmp[f.i], !.tmp[f.i] = Absent],
          f |-> Advance([f EXCEPT !.stageFiles[f.i] = FALSE], "marker")]

\* The marker write of Switch: writeCurrentProfile(t, profile).
SwitchMarker(w, f, fault) ==
    LET wr == writeCurrentProfile(w.marker, f.profile, fault)
    IN  IF wr.err # "nil"
        THEN [w |-> w, f |-> [Fail(f, "restore", wr.err) EXCEPT !.i = 1]]
        ELSE [w |-> [w EXCEPT !.marker = wr.node],
              f |-> [f EXCEPT !.pc = "cleanup"]]

\* After entry i of restoreRollback: the next entry, or the marker.
NextEntry(f) ==
    IF f.i < Len(f.rollbackEntries)
    THEN [f EXCEPT !.i = f.i + 1, !.pc = "restore"]
    ELSE [f EXCEPT !.i = 1, !.pc = "rbmarker"]

\* A variant that keeps only the latest rollback failure.
RollbackError_KeepLast(f, at, err) ==
    [f EXCEPT !.rollbackErr = {[at |-> at, err |-> err]}]

RollbackError(f, at, err) ==
    [f EXCEPT !.rollbackErr = @ \cup {[at |-> at, err |-> err]}]

\* A variant that returns at the first entry that fails.
restoreRollback_StopAtFailure(w, f, fault) ==
    LET cp == copyFile(w.rb.files[f.i], w.live[f.i])
        stop(g) == [g EXCEPT !.i = 1, !.pc = "rbmarker"]
    IN  IF f.rollbackEntries[f.i].existed
        THEN IF cp.err # "nil"
             THEN [w |-> w, f |-> stop(RollbackError(f, f.i, cp.err))]
             ELSE IF fault
             THEN [w |-> w, f |-> stop(RollbackError(f, f.i, "io"))]
             ELSE [w |-> [w EXCEPT !.live[f.i] = File(<<>>), !.liveDir = TRUE],
                   f |-> [f EXCEPT !.pc = "restoreWrite"]]
        ELSE IF w.live[f.i].k = "absent"
             THEN [w |-> w, f |-> NextEntry(f)]
             ELSE IF fault
             THEN [w |-> w, f |-> stop(RollbackError(f, f.i, "io"))]
             ELSE [w |-> [w EXCEPT !.live[f.i] = Absent], f |-> NextEntry(f)]

\* A variant that leaves alone the paths recorded as absent.
restoreRollback_KeepCreated(w, f, fault) ==
    LET cp == copyFile(w.rb.files[f.i], w.live[f.i])
    IN  IF f.rollbackEntries[f.i].existed
        THEN IF cp.err # "nil"
             THEN [w |-> w, f |-> NextEntry(RollbackError(f, f.i, cp.err))]
             ELSE IF fault
             THEN [w |-> w, f |-> NextEntry(RollbackError(f, f.i, "io"))]
             ELSE [w |-> [w EXCEPT !.live[f.i] = File(<<>>), !.liveDir = TRUE],
                   f |-> [f EXCEPT !.pc = "restoreWrite"]]
        ELSE [w |-> w, f |-> NextEntry(f)]

\* restoreRollback, one entry.  A recorded file is copied back with copyFile:
\* its checks, then the open of the live path that truncates it.  A file
\* recorded as absent is removed, a missing one being no error.
restoreRollback(w, f, fault) ==
    LET cp == copyFile(w.rb.files[f.i], w.live[f.i])
    IN  IF f.rollbackEntries[f.i].existed
        THEN IF cp.err # "nil"
             THEN [w |-> w, f |-> NextEntry(RollbackError(f, f.i, cp.err))]
             ELSE IF fault
             THEN [w |-> w, f |-> NextEntry(RollbackError(f, f.i, "io"))]
             ELSE [w |-> [w EXCEPT !.live[f.i] = File(<<>>), !.liveDir = TRUE],
                   f |-> [f EXCEPT !.pc = "restoreWrite"]]
        ELSE IF w.live[f.i].k = "absent"
             THEN [w |-> w, f |-> NextEntry(f)]
             ELSE IF fault
             THEN [w |-> w, f |-> NextEntry(RollbackError(f, f.i, "io"))]
             ELSE [w |-> [w EXCEPT !.live[f.i] = Absent], f |-> NextEntry(f)]

\* The io.Copy of copyFile in restoreRollback: the bytes of the backup.
restoreWrite(w, f, fault) ==
    IF fault
    THEN [w |-> w, f |-> NextEntry(RollbackError(f, f.i, "io"))]
    ELSE [w |-> [w EXCEPT !.live[f.i] = File(w.rb.files[f.i].c)],
          f |-> NextEntry(f)]

\* A variant that writes the marker whether or not it had been readable.
rollbackSwitch_AlwaysWrite(w, f, fault) ==
    LET wr == writeCurrentProfile(w.marker, f.previousProfile, fault)
    IN  IF wr.err # "nil"
        THEN [w |-> w,
              f |-> [RollbackError(f, 0, wr.err) EXCEPT !.pc = "cleanup"]]
        ELSE [w |-> [w EXCEPT !.marker = wr.node],
              f |-> [f EXCEPT !.pc = "cleanup"]]

\* rollbackSwitch after restoreRollback: the marker, when it was readable.
rollbackSwitch(w, f, fault) ==
    LET wr == writeCurrentProfile(w.marker, f.previousProfile, fault)
    IN  IF ~f.previousProfileKnown
        THEN [w |-> w, f |-> [f EXCEPT !.pc = "cleanup"]]
        ELSE IF wr.err # "nil"
        THEN [w |-> w,
              f |-> [RollbackError(f, 0, wr.err) EXCEPT !.pc = "cleanup"]]
        ELSE [w |-> [w EXCEPT !.marker = wr.node],
              f |-> [f EXCEPT !.pc = "cleanup"]]

\* A variant without the deferred os.RemoveAll(rollbackDir).
SwitchCleanup_KeepRollbackDir(w, f) ==
    [w |-> [w EXCEPT !.tmp = cleanupStageFiles(w.tmp, f.stageFiles)],
     f |-> [f EXCEPT !.pc = "done"]]

\* The deferred calls of Switch: os.RemoveAll(rollbackDir), then
\* cleanupStageFiles(stageFiles).
SwitchCleanup(w, f) ==
    [w |-> [w EXCEPT !.rb = IF f.rollbackDir THEN NoDir ELSE @,
                     !.tmp = cleanupStageFiles(w.tmp, f.stageFiles)],
     f |-> [f EXCEPT !.pc = "done"]]

\* One step of Switch from position f.pc.
SwitchStep(w, f, fault) ==
    CASE f.pc = "start" -> SwitchStart(w, f)
      [] f.pc = "stage" -> stageProfileFiles(w, f, fault)
      [] f.pc = "mkrb" -> createRollbackDir(w, f, fault)
      [] f.pc = "backup" -> backupCurrentFiles(w, f, fault)
      [] f.pc = "commit" -> SwitchCommit(w, f, fault)
      [] f.pc = "marker" -> SwitchMarker(w, f, fault)
      [] f.pc = "restore" -> restoreRollback(w, f, fault)
      [] f.pc = "restoreWrite" -> restoreWrite(w, f, fault)
      [] f.pc = "rbmarker" -> rollbackSwitch(w, f, fault)
      [] f.pc = "cleanup" -> SwitchCleanup(w, f)

\* ------------------------------------------------------------------- Save

\* A variant of the copy loop that returns after its first copy.
SaveCopy_FirstOnly(w, profile, i) ==
    LET cp == copyFile(w.live[i], w.profiles[profile].files[i])
    IN  IF cp.err # "nil"
        THEN [w |-> w,
              err |-> IF cp.err = "NotExist"
                      THEN "ErrConfigFileNotFound" ELSE cp.err,
              path |-> i]
        ELSE [w |-> [w EXCEPT !.profiles[profile].files[i] = cp.dst],
              err |-> "nil", path |-> 0]

RECURSIVE SaveCopy_RawError(_, _, _)
\* A variant of the copy loop that returns the error of copyFile as it is.
SaveCopy_RawError(w, profile, i) ==
    IF i > NFiles
    THEN [w |-> w, err |-> "nil", path |-> 0]
    ELSE LET cp == copyFile(w.live[i], w.profiles[profile].files[i])
         IN  IF cp.err # "nil"
             THEN [w |-> w, err |-> cp.err, path |-> i]
             ELSE SaveCopy_RawError(
                      [w EXCEPT !.profiles[profile].files[i] = cp.dst],
                      profile, i + 1)

RECURSIVE SaveCopy(_, _, _)
\* The copy loop of Save from file i on: copyFile of each live file into the
\* profile directory, in declared order, returning at the first error.
SaveCopy(w, profile, i) ==
    IF i > NFiles
    THEN [w |-> w, err |-> "nil", path |-> 0]
    ELSE LET cp == copyFile(w.live[i], w.profiles[profile].files[i])
         IN  IF cp.err # "nil"
             THEN [w |-> w,
                   err |-> IF cp.err = "NotExist"
                           THEN "ErrConfigFileNotFound" ELSE cp.err,
                   path |-> i]
             ELSE SaveCopy([w EXCEPT !.profiles[profile].files[i] = cp.dst],
                           profile, i + 1)

\* A variant that makes the directory with MkdirAll whatever force is.
Save_MkdirAll(w, profile, force) ==
    IF ~ValidateProfileName(profile)
    THEN [w |-> w, err |-> "validation", path |-> 0]
    ELSE SaveCopy([w EXCEPT !.profilesDir = TRUE,
                            !.profiles[profile].exists = TRUE], profile, 1)

\* A variant that makes the profile directory before it validates the name.
Save_MkdirFirst(w, profile, force) ==
    LET made == [w EXCEPT !.profilesDir = TRUE,
                          !.profiles = (profile :> EmptyDir) @@ w.profiles]
    IN  IF ~ValidateProfileName(profile)
        THEN [w |-> made, err |-> "validation", path |-> 0]
        ELSE IF ~force /\ w.profiles[profile].exists
        THEN [w |-> w, err |-> "ErrProfileAlreadyExists", path |-> 0]
        ELSE SaveCopy([w EXCEPT !.profilesDir = TRUE,
                                !.profiles[profile] = EmptyDir], profile, 1)

\* A variant that makes the saved profile the active one.
Save_Activates(w, profile, force) ==
    LET r == IF ~ValidateProfileName(profile)
             THEN [w |-> w, err |-> "validation", path |-> 0]
             ELSE IF ~force /\ w.profiles[profile].exists
             THEN [w |-> w, err |-> "ErrProfileAlreadyExists", path |-> 0]
             ELSE SaveCopy([w EXCEPT !.profilesDir = TRUE,
                                     !.profiles[profile] = EmptyDir],
                           profile, 1)
        wr == writeCurrentProfile(r.w.marker, profile, FALSE)
    IN  IF r.err = "nil" /\ wr.err = "nil"
        THEN [r EXCEPT !.w.marker = wr.node]
        ELSE r

\* A variant whose force leaves an existing profile as it is.
Save_ForceKeepsProfile(w, profile, force) ==
    IF ~ValidateProfileName(profile)
    THEN [w |-> w, err |-> "validation", path |-> 0]
    ELSE IF w.profiles[profile].exists
    THEN [w |-> w,
          err |-> IF force THEN "nil" ELSE "ErrProfileAlreadyExists",
          path |-> 0]
    ELSE SaveCopy([w EXCEPT !.profilesDir = TRUE,
                            !.profiles[profile] = EmptyDir], profile, 1)

\* Save: validate, make the profile directory (force: RemoveAll and MkdirAll;
\* otherwise Mkdir, which fails on an existing directory), copy the files.
Save(w, profile, force) ==
    IF ~ValidateProfileName(profile)
    THEN [w |-> w, err |-> "validation", path |-> 0]
    ELSE IF ~force /\ w.profiles[profile].exists
    THEN [w |-> w, err |-> "ErrProfileAlreadyExists", path |-> 0]
    ELSE SaveCopy([w EXCEPT !.profilesDir = TRUE,
                            !.profiles[profile] = EmptyDir], profile, 1)

\* ----------------------------------------------------------------- Delete

\* A variant that removes the directory and leaves the marker alone.
Delete_KeepMarker(w, profile) ==
    LET cur == readCurrentProfile(w.marker)
        wasCurrent == cur.profile = profile
        w1 == [w EXCEPT !.profiles[profile] = NoDir]
    IN  IF ~ValidateProfileName(profile)
        THEN [w |-> w, err |-> "validation", cleared |-> FALSE]
        ELSE IF ~w.profiles[profile].exists
        THEN [w |-> w, err |-> "ErrProfileNotFound", cleared |-> FALSE]
        ELSE IF cur.err # "nil"
        THEN [w |-> w, err |-> cur.err, cleared |-> FALSE]
        ELSE [w |-> w1, err |-> "nil", cleared |-> wasCurrent]

\* A variant that, deleting the active profile, removes the live files the
\* profile had installed.
Delete_RemoveLive(w, profile) ==
    LET cur == readCurrentProfile(w.marker)
        wasCurrent == cur.profile = profile
        w1 == [w EXCEPT !.profiles[profile] = NoDir]
        wr == writeCurrentProfile(w.marker, "", FALSE)
    IN  IF ~ValidateProfileName(profile)
        THEN [w |-> w, err |-> "validation", cleared |-> FALSE]
        ELSE IF ~w.profiles[profile].exists
        THEN [w |-> w, err |-> "ErrProfileNotFound", cleared |-> FALSE]
        ELSE IF cur.err # "nil"
        THEN [w |-> w, err |-> cur.err, cleared |-> FALSE]
        ELSE IF ~wasCurrent
        THEN [w |-> w1, err |-> "nil", cleared |-> FALSE]
        ELSE IF wr.err # "nil"
        THEN [w |-> w1, err |-> wr.err, cleared |-> FALSE]
        ELSE [w |-> [w1 EXCEPT !.marker = wr.node, !.live = NoFiles],
              err |-> "nil", cleared |-> TRUE]

\* Delete: validate, stat the directory, read the marker, remove the
\* directory, clear the marker when it named the profile.
Delete(w, profile) ==
    LET cur == readCurrentProfile(w.marker)
        wasCurrent == cur.profile = profile
        w1 == [w EXCEPT !.profiles[profile] = NoDir]
        wr == writeCurrentProfile(w.marker, "", FALSE)
    IN  IF ~ValidateProfileName(profile)
        THEN [w |-> w, err |-> "validation", cleared |-> FALSE]
        ELSE IF ~w.profiles[profile].exists
        THEN [w |-> w, err |-> "ErrProfileNotFound", cleared |-> FALSE]
        ELSE IF cur.err # "nil"
        THEN [w |-> w, err |-> cur.err, cleared |-> FALSE]
        ELSE IF ~wasCurrent
        THEN [w |-> w1, err |-> "nil", cleared |-> FALSE]
        ELSE IF wr.err # "nil"
        THEN [w |-> w1, err |-> wr.err, cleared |-> FALSE]
        ELSE [w |-> [w1 EXCEPT !.marker = wr.node],
              err |-> "nil", cleared |-> TRUE]

\* ---------------------------------------------------------------- Current

\* Exists: os.Stat of the profile directory.
Exists(w, profile) ==
    profile \in DOMAIN w.profiles /\ w.profiles[profile].exists

RECURSIVE matchesFrom_AbsentIsError(_, _, _)
\* A variant of the loop for which an absent live file is an error.
matchesFrom_AbsentIsError(w, profile, i) ==
    IF i > NFiles
    THEN [err |-> "nil", match |-> TRUE]
    ELSE LET src == w.profiles[profile].files[i]
             eq == filesEqual(src, w.live[i])
         IN  IF ensureRegularFile(src) # "nil"
             THEN [err |-> IF ensureRegularFile(src) = "NotExist"
                           THEN "ErrProfileMissingFile"
                           ELSE ensureRegularFile(src),
                   match |-> FALSE]
             ELSE IF eq.err # "nil"
             THEN [err |-> eq.err, match |-> FALSE]
             ELSE IF ~eq.same
             THEN [err |-> "nil", match |-> FALSE]
             ELSE matchesFrom_AbsentIsError(w, profile, i + 1)

RECURSIVE matchesFrom_ExaminesAll(_, _, _)
\* A variant that, past a missing or differing live file, goes on to the
\* later files and returns their error.
matchesFrom_ExaminesAll(w, profile, i) ==
    IF i > NFiles
    THEN [err |-> "nil", match |-> TRUE]
    ELSE LET src == w.profiles[profile].files[i]
             dst == ensureRegularFileIfExists(w.live[i])
             eq == filesEqual(src, w.live[i])
             rest == matchesFrom_ExaminesAll(w, profile, i + 1)
         IN  IF ensureRegularFile(src) # "nil"
             THEN [err |-> IF ensureRegularFile(src) = "NotExist"
                           THEN "ErrProfileMissingFile"
                           ELSE ensureRegularFile(src),
                   match |-> FALSE]
             ELSE IF dst.err # "nil"
             THEN [err |-> dst.err, match |-> FALSE]
             ELSE IF ~dst.exists
             THEN [err |-> rest.err, match |-> FALSE]
             ELSE IF eq.err # "nil"
             THEN [err |-> eq.err, match |-> FALSE]
             ELSE IF ~eq.same
             THEN [err |-> rest.err, match |-> FALSE]
             ELSE rest

RECURSIVE matchesFrom(_, _, _)
\* The loop of matches from pair i on: the profile's file must be regular,
\* an absent live file or a difference ends the comparison with false.
matchesFrom(w, profile, i) ==
    IF i > NFiles
    THEN [err |-> "nil", match |-> TRUE]
    ELSE LET src == w.profiles[profile].files[i]
             dst == ensureRegularFileIfExists(w.live[i])
             eq == filesEqual(src, w.live[i])
         IN  IF ensureRegularFile(src) # "nil"
             THEN [err |-> IF ensureRegularFile(src) = "NotExist"
                           THEN "ErrProfileMissingFile"
                           ELSE ensureRegularFile(src),
                   match |-> FALSE]
             ELSE IF dst.err # "nil"
             THEN [err |-> dst.err, match |-> FALSE]
             ELSE IF ~dst.exists
             THEN [err |-> "nil", match |-> FALSE]
             ELSE IF eq.err # "nil"
             THEN [err |-> eq.err, match |-> FALSE]
             ELSE IF ~eq.same
             THEN [err |-> "nil", match |-> FALSE]
             ELSE matchesFrom(w, profile, i + 1)

matches(w, profile) ==
    IF ~Exists(w, profile)
    THEN [err |-> "nil", match |-> FALSE]
    ELSE matchesFrom(w, profile, 1)

\* A variant that does not ask Exists before matches.
Current_NoExists(w) ==
    LET cur == readCurrentProfile(w.marker)
        m == matches(w, cur.profile)
    IN  IF cur.err # "nil"
        THEN [out |-> "", err |-> cur.err]
        ELSE IF cur.profile = ""
        THEN [out |-> "<custom>", err |-> "nil"]
        ELSE IF m.err # "nil"
        THEN [out |-> "", err |-> m.err]
        ELSE IF m.match
        THEN [out |-> cur.profile, err |-> "nil"]
        ELSE [out |-> cur.profile \o " (modified)", err |-> "nil"]

\* Current: "<custom>", the profile name, or the name with " (modified)".
Current(w) ==
    LET cur == readCurrentProfile(w.marker)
        m == matches(w, cur.profile)
    IN  IF cur.err # "nil"
        THEN [out |-> "", err |-> cur.err]
        ELSE IF cur.profile = ""
        THEN [out |-> "<custom>", err |-> "nil"]
        ELSE IF ~Exists(w, cur.profile)
        THEN [out |-> "<custom>", err |-> "nil"]
        ELSE IF m.err # "nil"
        THEN [out |-> "", err |-> m.err]
        ELSE IF m.match
        THEN [out |-> cur.profile, err |-> "nil"]
        ELSE [out |-> cur.profile \o " (modified)", err |-> "nil"]

\* ------------------------------------------------------------------- List

\* The characters of profile names in the order of their byte values.
AsciiOrder ==
    <<"-", "0", "1", "2", "3", "4", "5", "6", "7", "8", "9",
      "A", "B", "C", "D", "E", "F", "G", "H", "I", "J", "K", "L", "M", "N",
      "O", "P", "Q", "R", "S", "T", "U", "V", "W", "X", "Y", "Z", "_",
      "a", "b", "c", "d", "e", "f", "g", "h", "i", "j", "k", "l", "m", "n",
      "o", "p", "q", "r", "s", "t", "u", "v", "w", "x", "y", "z">>
Code(ch) == CHOOSE i \in 1..Len(AsciiOrder) : AsciiOrder[i] = ch

RECURSIVE BytesLess(_, _)
\* s < t on Go strings: byte by byte, a proper prefix being smaller.
BytesLess(s, t) ==
    IF t = <<>> THEN FALSE
    ELSE IF s = <<>> THEN TRUE
    ELSE IF Code(Head(s)) # Code(Head(t))
    THEN Code(Head(s)) < Code(Head(t))
    ELSE BytesLess(Tail(s), Tail(t))

\* A variant that puts the shorter name first.
StringLess_ShorterFirst(a, b) == Len(NameChars(a)) < Len(NameChars(b))

StringLess(a, b) == BytesLess(NameChars(a), NameChars(b))

RECURSIVE InsertSorted(_, _)
InsertSorted(x, seq) ==
    IF seq = <<>> THEN <<x>>
    ELSE IF StringLess(x, Head(seq)) THEN <<x>> \o seq
    ELSE <<Head(seq)>> \o InsertSorted(x, Tail(seq))

RECURSIVE sortStrings(_)
\* sort.Strings.
sortStrings(seq) ==
    IF seq = <<>> THEN <<>>
    ELSE InsertSorted(Head(seq), sortStrings(Tail(seq)))

RECURSIVE Enumerate(_)
Enumerate(S) ==
    IF S = {} THEN <<>>
    ELSE LET x == CHOOSE y \in S : TRUE IN <<x>> \o Enumerate(S \ {x})

\* os.ReadDir(profilesDir): the entries of the directory, sorted by filename.
ReadDir(w) ==
    sortStrings(Enumerate({n \in DOMAIN w.profiles : w.profiles[n].exists}))

\* List: no directory yet is an empty list; otherwise the entries that are
\* directories, sorted.
List(w) ==
    LET IsDir(n) == w.profiles[n].exists
    IN  IF ~w.profilesDir
        THEN [out |-> <<>>, err |-> "nil"]
        ELSE [out |-> sortStrings(SelectSeq(ReadDir(w), IsDir)), err |-> "nil"]

\* ------------------------------------------------- Switch, as one call

\* The filesystem calls of Switch at which an I/O fault can be injected.
PrimaryPoints ==
    {<<"stage", i>> : i \in Files} \cup {<<"mkrb", 1>>}
        \cup {<<"backup", i>> : i \in Files}
        \cup {<<"commit", i>> : i \in Files} \cup {<<"marker", 1>>}
RollbackTriggers == {<<"commit", i>> : i \in Files} \cup {<<"marker", 1>>}
RollbackPoints == {<<"restore", i>> : i \in Files} \cup {<<"rbmarker", 1>>}

\* The fault plans of one call: no fault, one fault before the rollback, or
\* a fault that starts the rollback with up to MaxRollbackFaults faults in
\* it.  A rollback that starts without a fault (the marker path is not a
\* regular file) can meet faults too.
FaultPlans ==
    {{}} \cup {{x} : x \in PrimaryPoints}
        \cup {P \cup R : P \in {{}} \cup {{x} : x \in RollbackTriggers},
                         R \in {S \in SUBSET RollbackPoints :
                                  Cardinality(S) <= MaxRollbackFaults}}

RECURSIVE SwitchRun(_, _, _)
\* Switch from position f.pc to its return, under a fault plan.
SwitchRun(w, f, plan) ==
    IF f.pc = "done"
    THEN [w |-> w, f |-> f]
    ELSE LET r == SwitchStep(w, f, <<f.pc, f.i>> \in plan)
         IN  SwitchRun(r.w, r.f, plan)

Call(profile) == [Idle EXCEPT !.pc = "start", !.profile = profile]

Switch(w, profile, plan) == SwitchRun(w, Call(profile), plan)

\* ---------------------------------------------------------- initial state

\* No profile saved, no marker; the live files are there or not.
Init ==
    /\ \E live \in [Files -> {Absent} \cup {File(c) : c \in Contents}],
          dir \in BOOLEAN :
         /\ (\E i \in Files : live[i].k # "absent") => dir
         /\ fs = [live |-> live, liveDir |-> dir, profilesDir |-> FALSE,
                  profiles |-> [n \in Names |-> NoDir],
                  marker |-> MarkerAbsent, tmp |-> NoFiles, rb |-> NoDir,
                  stale |-> NoStale]
    /\ sw = Idle
    /\ last = NoLast
    /\ pre = fs
    /\ since = NoSince

\* ------------------------------------------------- the operations, called

\* No call is running and the result of the last one has been taken.
Ready == sw.pc = "idle" /\ last.op = "none"

DoSave(profile, force) ==
    /\ Ready
    /\ LET r == Save(fs, profile, force) IN
       /\ fs' = r.w
       /\ last' = [NoLast EXCEPT !.op = "save", !.profile = profile,
                                 !.force = force, !.err = r.err,
                                 !.path = r.path]
    /\ pre' = fs
    /\ since' = NoSince
    /\ UNCHANGED sw

DoDelete(profile) ==
    /\ Ready
    /\ LET r == Delete(fs, profile) IN
       /\ fs' = r.w
       /\ last' = [NoLast EXCEPT !.op = "delete", !.profile = profile,
                                 !.err = r.err, !.cleared = r.cleared]
    /\ pre' = fs
    /\ since' = NoSince
    /\ UNCHANGED sw

DoCurrent ==
    /\ Ready
    /\ LET r == Current(fs) IN
       last' = [NoLast EXCEPT !.op = "current", !.err = r.err, !.out = r.out]
    /\ pre' = fs
    /\ UNCHANGED <<fs, sw, since>>

\* What Switch leaves when it returns.
Returned(r) ==
    /\ fs' = r.w
    /\ sw' = Idle
    /\ last' = [NoLast EXCEPT !.op = "switch", !.profile = r.f.profile,
                              !.err = r.f.err, !.at = r.f.at,
                              !.rollbackErr = r.f.rollbackErr]
    /\ since' = IF r.f.err = "nil"
                THEN [NoSince EXCEPT
                        !.valid = TRUE, !.profile = r.f.profile,
                        !.bytes = [i \in Files |-> r.w.live[i].c]]
                ELSE NoSince

DoSwitch(profile, plan) ==
    /\ Ready
    /\ Returned(Switch(fs, profile, plan))
    /\ pre' = fs

\* The caller has taken the result; the next call starts from the
\* filesystem alone.
Forget ==
    /\ sw.pc = "idle"
    /\ last.op # "none"
    /\ last' = NoLast
    /\ pre' = fs
    /\ UNCHANGED <<fs, sw, since>>

\* ------------------------------------------- Switch, call by call of the
\* ------------------------------------------- filesystem, and killed

\* What a step of Switch leaves: the call goes on, or it has returned.
Progress(r) ==
    IF r.f.pc = "done"
    THEN Returned(r)
    ELSE /\ fs' = r.w
         /\ sw' = r.f
         /\ last' = NoLast
         /\ since' = NoSince

\* Switch is called and runs up to its first change of the filesystem.
CallSwitch(profile) ==
    /\ Ready
    /\ Progress(SwitchStart(fs, Call(profile)))
    /\ pre' = fs

\* The points of a running call where an I/O fault is injected: before the
\* call has failed, and while no call has been killed.
Faultable(w, f) ==
    /\ <<f.pc, f.i>> \in PrimaryPoints
    /\ f.err = "nil"
    /\ w.stale.kills = 0

\* The running Switch makes its next filesystem call, which may fail.
SwitchNext(fault) ==
    /\ sw.pc # "idle"
    /\ fault => Faultable(fs, sw)
    /\ Progress(SwitchStep(fs, sw, fault))
    /\ UNCHANGED pre

\* The process is killed during Switch, before its next filesystem call:
\* the staged files and the rollback directory stay on disk.
Kill ==
    /\ sw.pc # "idle"
    /\ fs.stale.kills < MaxKills
    /\ LET w == [fs EXCEPT
                   !.tmp = NoFiles, !.rb = NoDir,
                   !.stale = [kills |-> @.kills + 1,
                              stage |-> @.stage + Cardinality(
                                  {i \in Files : fs.tmp[i].k # "absent"}),
                              rollback |-> @.rollback +
                                  IF fs.rb.exists THEN 1 ELSE 0,
                              at |-> <<sw.pc, sw.i>>]]
       IN  /\ fs' = w
           /\ pre' = w
    /\ sw' = Idle
    /\ last' = NoLast
    /\ since' = NoSince

\* ------------------------------------------------- the world outside

Outside(w, keep) ==
    /\ fs' = w
    /\ last' = NoLast
    /\ pre' = w
    /\ since' = IF keep THEN since ELSE NoSince
    /\ UNCHANGED sw

\* The user (or the tool itself) writes a live config file.
EnvWriteLive(i, c) ==
    /\ Ready
    /\ fs.live[i].k \in {"absent", "file"}
    /\ fs.live[i] # File(c)
    /\ Outside([fs EXCEPT !.live[i] = File(c), !.liveDir = TRUE], TRUE)

\* A live config file is removed.
EnvRemoveLive(i) ==
    /\ Ready
    /\ fs.live[i].k # "absent"
    /\ Outside([fs EXCEPT !.live[i] = Absent], FALSE)

\* The directory of the live config files is removed with all it holds.
EnvRemoveLiveDir ==
    /\ Ready
    /\ fs.liveDir
    /\ Outside([fs EXCEPT !.live = NoFiles, !.liveDir = FALSE], FALSE)

\* A live config path is replaced by a symlink.
EnvTamperLive(i, node) ==
    /\ Ready
    /\ fs.live[i] # node
    /\ Outside([fs EXCEPT !.live[i] = node, !.liveDir = TRUE], FALSE)

\* A profile directory is removed outside the program.
EnvRemoveProfile(profile) ==
    /\ Ready
    /\ fs.profiles[profile].exists
    /\ Outside([fs EXCEPT !.profiles[profile] = NoDir], FALSE)

\* A file of a profile is removed or replaced by a symlink.
EnvTamperProfileFile(profile, i, node) ==
    /\ Ready
    /\ fs.profiles[profile].exists
    /\ fs.profiles[profile].files[i] # node
    /\ Outside([fs EXCEPT !.profiles[profile].files[i] = node], FALSE)

\* current.json is replaced by garbage, a symlink, a directory or a fifo.
EnvTamperMarker(node) ==
    /\ Ready
    /\ fs.marker # node
    /\ Outside([fs EXCEPT !.marker = node], FALSE)

TamperedLive == {Symlink(c) : c \in LinkContents}
TamperedProfiles == {"p"}
TamperedProfileFile == {Absent} \cup {Symlink(c) : c \in LinkContents}
TamperedMarker ==
    {Node("file", Garbage), Node("dir", Garbage), Node("other", Garbage),
     Node("symlink", Marshal("p"))}

Next ==
    \/ \E profile \in InputNames, force \in BOOLEAN : DoSave(profile, force)
    \/ \E profile \in InputNames : DoDelete(profile)
    \/ DoCurrent
    \/ \E profile \in InputNames, plan \in FaultPlans : DoSwitch(profile, plan)
    \/ Forget
    \/ \E i \in Files, c \in Contents : EnvWriteLive(i, c)
    \/ \E i \in Files : EnvRemoveLive(i)
    \/ EnvRemoveLiveDir
    \/ \E i \in Files, node \in TamperedLive : EnvTamperLive(i, node)
    \/ \E profile \in Names : EnvRemoveProfile(profile)
    \/ \E profile \in TamperedProfiles, i \in Files,
          node \in TamperedProfileFile :
          EnvTamperProfileFile(profile, i, node)
    \/ \E node \in TamperedMarker : EnvTamperMarker(node)

Spec == Init /\ [][Next]_vars

\* Switch step by step, with kills; the live files are written and removed
\* between the calls, the store is not tampered with.
NextKill ==
    \/ \E profile \in Names, force \in BOOLEAN : DoSave(profile, force)
    \/ \E profile \in Names : CallSwitch(profile)
    \/ \E fault \in BOOLEAN : SwitchNext(fault)
    \/ Kill
    \/ Forget
    \/ \E i \in Files, c \in Contents : EnvWriteLive(i, c)
    \/ \E i \in Files : EnvRemoveLive(i)

SpecKill == Init /\ [][NextKill]_vars

\* ---------------------------------------------------- listing the store

\* A store for the names of ListNames, nothing saved yet.
InitList ==
    /\ \E live \in [Files -> {Absent} \cup {File(c) : c \in Contents}] :
         fs = [live |-> live, liveDir |-> TRUE, profilesDir |-> FALSE,
               profiles |-> [n \in ListNames |-> NoDir],
               marker |-> MarkerAbsent, tmp |-> NoFiles, rb |-> NoDir,
               stale |-> NoStale]
    /\ sw = Idle
    /\ last = NoLast
    /\ pre = fs
    /\ since = NoSince

\* Save, with the names saved so far kept in the order of their saving.
ListSave(profile, force) ==
    /\ Ready
    /\ LET r == Save(fs, profile, force)
           others == SelectSeq(since.saved, LAMBDA n : n # profile)
       IN  /\ fs' = r.w
           /\ last' = [NoLast EXCEPT !.op = "save", !.profile = profile,
                                     !.force = force, !.err = r.err,
                                     !.path = r.path]
           /\ since' = [since EXCEPT !.saved =
                           IF r.err = "nil"
                           THEN Append(others, profile) ELSE @]
    /\ pre' = fs
    /\ UNCHANGED sw

\* Delete, the deleted name leaving the names saved so far.
ListDelete(profile) ==
    /\ Ready
    /\ LET r == Delete(fs, profile) IN
       /\ fs' = r.w
       /\ last' = [NoLast EXCEPT !.op = "delete", !.profile = profile,
                                 !.err = r.err, !.cleared = r.cleared]
       /\ since' = [since EXCEPT !.saved =
                       IF r.err = "nil"
                       THEN SelectSeq(@, LAMBDA n : n # profile) ELSE @]
    /\ pre' = fs
    /\ UNCHANGED sw

DoList ==
    /\ Ready
    /\ LET r == List(fs) IN
       last' = [NoLast EXCEPT !.op = "list", !.err = r.err, !.list = r.out]
    /\ pre' = fs
    /\ UNCHANGED <<fs, sw, since>>

NextList ==
    \/ \E profile \in ListNames, force \in BOOLEAN : ListSave(profile, force)
    \/ \E profile \in ListNames : ListDelete(profile)
    \/ DoList
    \/ Forget

SpecList == InitList /\ [][NextList]_vars

\* ------------------------------------------------------- validating names

\* The longest string of free characters in a generated name.
MaxStem == 2

\* Generated names: a run of "a" (none, or up to the length limit), then a
\* few characters of every kind, then nothing or a reserved string.
ValidateAlphabet == {"a", "Z", "0", "-", "_", " ", ".", "/", "<", "U+00E9"}
Stems == UNION {[1..n -> ValidateAlphabet] : n \in 0..MaxStem}
PadLens == {0, maxLen - 2, maxLen - 1, maxLen}
Tails == {<<>>, ModifiedSuffix, CustomChars}
ValidateInputs ==
    {Repeat("a", n) \o stem \o tail :
        n \in PadLens, stem \in Stems, tail \in Tails}

\* The named inputs a profile directory can exist for.
ValidNamed == {n \in NamedInputs : ValidateProfileName(n)}

\* Either a name to validate, or a store for the operations to be called on
\* with names of every kind.
InitValidate ==
    /\ \E live \in [Files -> {Absent} \cup {File(c) : c \in Contents}] :
         fs = [live |-> live, liveDir |-> TRUE, profilesDir |-> FALSE,
               profiles |-> [n \in ValidNamed |-> NoDir],
               marker |-> MarkerAbsent, tmp |-> NoFiles, rb |-> NoDir,
               stale |-> NoStale]
    /\ sw = Idle
    /\ \/ last = NoLast
       \/ /\ \A i \in Files : fs.live[i] = Absent
          /\ \E s \in ValidateInputs :
               last = [NoLast EXCEPT !.op = "input", !.chars = s]
    /\ pre = fs
    /\ since = NoSince

\* ValidateProfileName is applied to the name.
DoValidate ==
    /\ sw.pc = "idle"
    /\ last.op = "input"
    /\ last' = [last EXCEPT !.op = "validate",
                            !.err = IF ValidateChars(last.chars)
                                    THEN "nil" ELSE "validation"]
    /\ UNCHANGED <<fs, sw, pre, since>>

NextValidate ==
    \/ DoValidate
    \/ \E profile \in NamedInputs, force \in BOOLEAN : DoSave(profile, force)
    \/ \E profile \in NamedInputs : DoDelete(profile)
    \/ \E profile \in NamedInputs : DoSwitch(profile, {})
    \/ DoCurrent
    \/ Forget
    \/ \E i \in Files, c \in Contents : EnvWriteLive(i, c)

SpecValidate == InitValidate /\ [][NextValidate]_vars

\* ------------------------------------------- Save, call by call of the
\* ------------------------------------------- filesystem, two at a time

\* A Save call about to start.
SaveCall(profile, force) ==
    [pc |-> "start", profile |-> profile, force |-> force, i |-> 1,
     err |-> "nil"]

SaveReturn(g, err) == [g EXCEPT !.pc = "done", !.err = err]

\* A variant that makes the directory with os.MkdirAll, which does not
\* fail on an existing directory.
SaveMkdir_MkdirAll(w, g) ==
    [w |-> [w EXCEPT !.profiles[g.profile].exists = TRUE],
     g |-> [g EXCEPT !.pc = "copy", !.i = 1]]

\* os.Mkdir(profileDir): fails on an existing directory, in one step.
SaveMkdir(w, g) ==
    IF w.profiles[g.profile].exists
    THEN [w |-> w, g |-> SaveReturn(g, "ErrProfileAlreadyExists")]
    ELSE [w |-> [w EXCEPT !.profiles[g.profile] = EmptyDir],
          g |-> [g EXCEPT !.pc = "copy", !.i = 1]]

\* One copyFile of the copy loop: the source is checked, the profile
\* directory is made if it is gone, the destination is checked and written.
SaveCopyOne(w, g) ==
    LET src == w.live[g.i]
        w1 == [w EXCEPT !.profilesDir = TRUE,
                        !.profiles[g.profile].exists = TRUE]
        dst == w1.profiles[g.profile].files[g.i]
    IN  IF ensureRegularFile(src) # "nil"
        THEN [w |-> w,
              g |-> SaveReturn(g, IF ensureRegularFile(src) = "NotExist"
                                  THEN "ErrConfigFileNotFound"
                                  ELSE ensureRegularFile(src))]
        ELSE IF rejectNonRegularFile(dst) # "nil"
        THEN [w |-> w1, g |-> SaveReturn(g, rejectNonRegularFile(dst))]
        ELSE [w |-> [w1 EXCEPT !.profiles[g.profile].files[g.i] = File(src.c)],
              g |-> IF g.i < NFiles
                    THEN [g EXCEPT !.i = g.i + 1]
                    ELSE SaveReturn(g, "nil")]

\* One filesystem call of Save from position g.pc.
SaveStep(w, g) ==
    CASE g.pc = "start" ->
           [w |-> w,
            g |-> IF ~ValidateProfileName(g.profile)
                  THEN SaveReturn(g, "validation")
                  ELSE [g EXCEPT !.pc = IF g.force THEN "removeall"
                                        ELSE "mkparent"]]
      [] g.pc = "removeall" ->
           [w |-> [w EXCEPT !.profiles[g.profile] = NoDir],
            g |-> [g EXCEPT !.pc = "mkdirall"]]
      [] g.pc = "mkdirall" ->
           [w |-> [w EXCEPT !.profilesDir = TRUE,
                            !.profiles[g.profile].exists = TRUE],
            g |-> [g EXCEPT !.pc = "copy", !.i = 1]]
      [] g.pc = "mkparent" ->
           [w |-> [w EXCEPT !.profilesDir = TRUE],
            g |-> [g EXCEPT !.pc = "mkdir"]]
      [] g.pc = "mkdir" -> SaveMkdir(w, g)
      [] g.pc = "copy" -> SaveCopyOne(w, g)

\* Two Save calls are made at the same time.
StartSaves(p1, f1, p2, f2) ==
    /\ Ready
    /\ sw' = [Idle EXCEPT !.pc = "saving",
                          !.saves = <<SaveCall(p1, f1), SaveCall(p2, f2)>>]
    /\ pre' = fs
    /\ UNCHANGED <<fs, last, since>>

\* Call k makes its next filesystem call.
SaveNext(k) ==
    /\ sw.pc = "saving"
    /\ sw.saves[k].pc # "done"
    /\ LET r == SaveStep(fs, sw.saves[k]) IN
       /\ fs' = r.w
       /\ sw' = [sw EXCEPT !.saves[k] = r.g]
    /\ UNCHANGED <<last, pre, since>>

NextRace ==
    \/ \E p1 \in Names, p2 \in Names, f1 \in BOOLEAN, f2 \in BOOLEAN :
          StartSaves(p1, f1, p2, f2)
    \/ \E k \in 1..2 : SaveNext(k)

SpecRace == Init /\ [][NextRace]_vars

\* ------------------------------------------------- two tools, one home

\* The tool descriptors: the name and the config paths under the home
\* directory, as directory and base name.
ClaudeTool ==
    [Name |-> "claude",
     ConfigRelPaths |-> <<<<".claude", "settings.json">>>>]
CodexTool ==
    [Name |-> "codex",
     ConfigRelPaths |-> <<<<".codex", "config.toml">>,
                          <<".codex", "auth.json">>>>]

\* configFiles: the live paths of a tool.
configFiles(t) == t.ConfigRelPaths

\* A variant in which every tool keeps its profiles in the same directory.
tokyoDir_Shared(t) == <<".config", "tokyo">>

\* tokyoDir: ~/.config/tokyo/<name>.
tokyoDir(t) == <<".config", "tokyo", t.Name>>

LivePaths ==
    {configFiles(t)[i] : t \in {ClaudeTool, CodexTool},
                         i \in 1..Len(configFiles(ClaudeTool))}
        \cup {configFiles(CodexTool)[i] : i \in Files}
TokyoDirs == {tokyoDir(ClaudeTool), tokyoDir(CodexTool)}

\* The home directory: the nodes at the live paths and the temporaries next
\* to them, the directories of the live paths, and what is under each
\* tool's tokyo directory.
\* The filesystem of the operations as tool t finds it in the home.
View(home, t) ==
    [live |-> [i \in Files |-> home.live[configFiles(t)[i]]],
     tmp |-> [i \in Files |-> home.tmp[configFiles(t)[i]]],
     liveDir |-> home.liveDirs[configFiles(t)[1][1]],
     profilesDir |-> home.stores[tokyoDir(t)].profilesDir,
     profiles |-> home.stores[tokyoDir(t)].profiles,
     marker |-> home.stores[tokyoDir(t)].marker,
     rb |-> home.stores[tokyoDir(t)].rb,
     stale |-> home.stores[tokyoDir(t)].stale]

\* The home after an operation of tool t left w at the tool's paths.
Put(home, t, w) ==
    LET at(path) == CHOOSE i \in Files : configFiles(t)[i] = path
        mine == {configFiles(t)[i] : i \in Files}
    IN  [live |-> [path \in LivePaths |->
                     IF path \in mine THEN w.live[at(path)]
                     ELSE home.live[path]],
         tmp |-> [path \in LivePaths |->
                     IF path \in mine THEN w.tmp[at(path)]
                     ELSE home.tmp[path]],
         liveDirs |-> [home.liveDirs EXCEPT ![configFiles(t)[1][1]] =
                                                w.liveDir],
         stores |-> [home.stores EXCEPT ![tokyoDir(t)] =
                        [profilesDir |-> w.profilesDir,
                         profiles |-> w.profiles, marker |-> w.marker,
                         rb |-> w.rb, stale |-> w.stale]]]

\* What is under a tokyo directory before any call.
NoStore ==
    [profilesDir |-> FALSE, profiles |-> [n \in Names |-> NoDir],
     marker |-> MarkerAbsent, rb |-> NoDir, stale |-> NoStale]

\* Claude's profile p, saved from a settings.json holding c.
ClaudeSaved(c) ==
    [exists |-> TRUE, files |-> <<File(c)>>]

\* The home: Claude's settings.json is there; Claude has no profile, or has
\* saved p, or has switched to p; Codex starts as in Init.
InitTools ==
    /\ \E live \in [Files -> {Absent} \cup {File(c) : c \in Contents}],
          c \in Contents, saved \in BOOLEAN, switched \in BOOLEAN :
         /\ switched => saved
         /\ fs = [live |->
                    [path \in LivePaths |->
                       IF path \in {configFiles(CodexTool)[i] : i \in Files}
                       THEN live[CHOOSE i \in Files :
                                   configFiles(CodexTool)[i] = path]
                       ELSE File(c)],
                  tmp |-> [path \in LivePaths |-> Absent],
                  liveDirs |-> [d \in {".claude", ".codex"} |-> TRUE],
                  stores |->
                    [d \in TokyoDirs |->
                       IF d = tokyoDir(ClaudeTool) /\ saved
                       THEN [NoStore EXCEPT
                               !.profilesDir = TRUE,
                               !.profiles["p"] = ClaudeSaved(c),
                               !.marker = IF switched
                                          THEN Node("file", Marshal("p"))
                                          ELSE MarkerAbsent]
                       ELSE NoStore]]
    /\ sw = Idle
    /\ last = NoLast
    /\ pre = fs
    /\ since = NoSince

\* The operations of Codex on the home.
ToolSave(t, profile, force) ==
    /\ Ready
    /\ LET r == Save(View(fs, t), profile, force) IN
       /\ fs' = Put(fs, t, r.w)
       /\ last' = [NoLast EXCEPT !.op = "save", !.tool = t.Name,
                                 !.profile = profile, !.force = force,
                                 !.err = r.err, !.path = r.path]
    /\ pre' = fs
    /\ UNCHANGED <<sw, since>>

ToolSwitch(t, profile, plan) ==
    /\ Ready
    /\ LET r == Switch(View(fs, t), profile, plan) IN
       /\ fs' = Put(fs, t, r.w)
       /\ last' = [NoLast EXCEPT !.op = "switch", !.tool = t.Name,
                                 !.profile = profile, !.err = r.f.err,
                                 !.at = r.f.at,
                                 !.rollbackErr = r.f.rollbackErr]
    /\ pre' = fs
    /\ UNCHANGED <<sw, since>>

ToolDelete(t, profile) ==
    /\ Ready
    /\ LET r == Delete(View(fs, t), profile) IN
       /\ fs' = Put(fs, t, r.w)
       /\ last' = [NoLast EXCEPT !.op = "delete", !.tool = t.Name,
                                 !.profile = profile, !.err = r.err,
                                 !.cleared = r.cleared]
    /\ pre' = fs
    /\ UNCHANGED <<sw, since>>

\* A live config file of either tool is written.
ToolWriteLive(path, c) ==
    /\ Ready
    /\ fs.live[path] # File(c)
    /\ fs' = [fs EXCEPT !.live[path] = File(c)]
    /\ pre' = fs'
    /\ UNCHANGED <<sw, last, since>>

NextTools ==
    \/ \E profile \in Names, force \in BOOLEAN :
          ToolSave(CodexTool, profile, force)
    \/ \E profile \in Names, plan \in FaultPlans :
          ToolSwitch(CodexTool, profile, plan)
    \/ \E profile \in Names : ToolDelete(CodexTool, profile)
    \/ Forget
    \/ \E path \in LivePaths, c \in Contents : ToolWriteLive(path, c)

SpecTools == InitTools /\ [][NextTools]_vars

\* --------------------------------- the marker over sequences of calls

\* The calls, remembering in since.targets the names that a successful
\* Switch was called with.
Targets(names) == [NoSince EXCEPT !.targets = names]

MarkSave(profile, force) ==
    /\ Ready
    /\ LET r == Save(fs, profile, force) IN
       /\ fs' = r.w
       /\ last' = [NoLast EXCEPT !.op = "save", !.profile = profile,
                                 !.force = force, !.err = r.err,
                                 !.path = r.path]
    /\ pre' = fs
    /\ since' = Targets(since.targets)
    /\ UNCHANGED sw

MarkSwitch(profile, plan) ==
    /\ Ready
    /\ LET r == Switch(fs, profile, plan) IN
       /\ fs' = r.w
       /\ last' = [NoLast EXCEPT !.op = "switch", !.profile = profile,
                                 !.err = r.f.err, !.at = r.f.at,
                                 !.rollbackErr = r.f.rollbackErr]
       /\ since' = Targets(since.targets \cup
                               IF r.f.err = "nil" THEN {profile} ELSE {})
    /\ pre' = fs
    /\ UNCHANGED sw

MarkDelete(profile) ==
    /\ Ready
    /\ LET r == Delete(fs, profile) IN
       /\ fs' = r.w
       /\ last' = [NoLast EXCEPT !.op = "delete", !.profile = profile,
                                 !.err = r.err, !.cleared = r.cleared]
    /\ pre' = fs
    /\ since' = Targets(since.targets)
    /\ UNCHANGED sw

\* A live file is removed between the calls.
MarkRemoveLive(i) ==
    /\ Ready
    /\ fs.live[i].k # "absent"
    /\ Outside([fs EXCEPT !.live[i] = Absent], TRUE)

NextMarker ==
    \/ \E profile \in InputNames, force \in BOOLEAN : MarkSave(profile, force)
    \/ \E profile \in InputNames, plan \in FaultPlans :
          MarkSwitch(profile, plan)
    \/ \E profile \in InputNames : MarkDelete(profile)
    \/ Forget
    \/ \E i \in Files, c \in Contents : EnvWriteLive(i, c)
    \/ \E i \in Files : MarkRemoveLive(i)

SpecMarker == Init /\ [][NextMarker]_vars

\* ------------------------------------------ the read-only operations

ReadOps == {"current", "list", "exists"}

\* A read-only operation can be called again at once: the caller still
\* holds the result of the call before.
Reading == sw.pc = "idle" /\ last.op \in {"none"} \cup ReadOps

\* What the Current call just before returned, if that was the last call.
PrevCurrent ==
    IF last.op = "current"
    THEN <<[out |-> last.out, err |-> last.err]>>
    ELSE <<>>

\* A variant of Current that clears a marker naming a profile that is gone.
ReadCurrent_RepairsMarker ==
    /\ Reading
    /\ LET r == Current(fs)
           cur == readCurrentProfile(fs.marker)
           orphan == cur.err = "nil" /\ cur.profile # ""
                         /\ ~Exists(fs, cur.profile)
       IN  /\ last' = [NoLast EXCEPT !.op = "current", !.err = r.err,
                                     !.out = r.out, !.prev = PrevCurrent]
           /\ fs' = IF orphan
                    THEN [fs EXCEPT !.marker = Node("file", Marshal(""))]
                    ELSE fs
    /\ pre' = fs
    /\ UNCHANGED <<sw, since>>

ReadCurrent ==
    /\ Reading
    /\ LET r == Current(fs) IN
       last' = [NoLast EXCEPT !.op = "current", !.err = r.err,
                              !.out = r.out, !.prev = PrevCurrent]
    /\ fs' = fs
    /\ pre' = fs
    /\ UNCHANGED <<sw, since>>

ReadList ==
    /\ Reading
    /\ LET r == List(fs) IN
       last' = [NoLast EXCEPT !.op = "list", !.err = r.err, !.list = r.out]
    /\ pre' = fs
    /\ UNCHANGED <<fs, sw, since>>

ReadExists(profile) ==
    /\ Reading
    /\ last' = [NoLast EXCEPT !.op = "exists", !.profile = profile,
                  !.out = IF Exists(fs, profile) THEN "true" ELSE "false"]
    /\ pre' = fs
    /\ UNCHANGED <<fs, sw, since>>

NextRead ==
    \/ \E profile \in Names, force \in BOOLEAN : DoSave(profile, force)
    \/ \E profile \in Names : DoSwitch(profile, {})
    \/ \E profile \in Names : DoDelete(profile)
    \/ ReadCurrent
    \/ ReadList
    \/ \E profile \in Names : ReadExists(profile)
    \/ Forget
    \/ \E i \in Files, c \in Contents : EnvWriteLive(i, c)
    \/ \E i \in Files, node \in TamperedLive : EnvTamperLive(i, node)
    \/ \E profile \in Names : EnvRemoveProfile(profile)
    \/ \E node \in TamperedMarker : EnvTamperMarker(node)

SpecRead == Init /\ [][NextRead]_vars

\* ----------------------------------------------- Save, failed and retried

\* Save, remembering in since.failed the name whose non-forced Save failed
\* with ErrConfigFileNotFound, through the non-forced Saves of that name
\* that follow while live files are only created.
TrySave(profile, force) ==
    /\ Ready
    /\ LET r == Save(fs, profile, force) IN
       /\ fs' = r.w
       /\ last' = [NoLast EXCEPT !.op = "save", !.profile = profile,
                                 !.force = force, !.err = r.err,
                                 !.path = r.path]
       /\ since' = IF ~force /\ r.err = "ErrConfigFileNotFound"
                   THEN [NoSince EXCEPT !.failed = profile]
                   ELSE IF ~force /\ since.failed = profile
                   THEN since
                   ELSE NoSince
    /\ pre' = fs
    /\ UNCHANGED sw

NextRetry ==
    \/ \E profile \in Names, force \in BOOLEAN : TrySave(profile, force)
    \/ Forget
    \/ \E i \in Files, c \in Contents : EnvWriteLive(i, c)
    \/ \E i \in Files : EnvRemoveLive(i)

SpecRetry == Init /\ [][NextRetry]_vars

\* ------------------------------------- Current over every kind of node

\* What a live path or a file of a profile can be replaced by from outside.
TamperedNodes == {Absent, Dir, Other} \cup {Symlink(c) : c \in LinkContents}

\* Save, Switch without faults and Current of one profile, the live paths
\* and the profile's files being replaced by nodes of every kind in between.
NextCurrent ==
    \/ \E force \in BOOLEAN : DoSave("p", force)
    \/ DoSwitch("p", {})
    \/ DoCurrent
    \/ Forget
    \/ \E i \in Files, c \in Contents : EnvWriteLive(i, c)
    \/ \E i \in Files : EnvRemoveLive(i)
    \/ \E i \in Files, node \in TamperedNodes \ {Absent} :
          EnvTamperLive(i, node)
    \/ \E i \in Files, node \in TamperedNodes :
          EnvTamperProfileFile("p", i, node)

SpecCurrent == Init /\ [][NextCurrent]_vars

\* -------------------------------------------------------- the HTTP facade

\* Server.tools: the tool names the server knows.
tools == {"claude", "codex"}
\* The {tool} path values of the requests: the tool whose files are
\* modelled, and a name the server does not know.
ToolNames == {"codex", "vim"}

\* getTool: the lookup of the {tool} path value.
getTool(toolName) == toolName \in tools

\* err.Error() of an error of the core, word by word; %q and %s stand for
\* the quoted profile name and the path.
ErrorText(err) ==
    CASE err = "ErrProfileAlreadyExists" ->
           <<"profile", "%q", "already", "exists",
             "(", "use", "--force", "to", "overwrite", ")">>
      [] err = "ErrProfileNotFound" -> <<"profile", "%q", "not", "found">>
      [] err = "ErrConfigFileNotFound" ->
           <<"config", "file", "not", "found", ":", "%s">>
      [] err = "ErrProfileMissingFile" ->
           <<"profile", "is", "missing", "file", ":", "%s">>
      [] err = "ErrSymlinkNotAllowed" ->
           <<"symlink", "not", "allowed", ":", "%s">>
      [] err = "ErrExpectedFileIsDir" ->
           <<"expected", "file", "but", "found", "directory", ":", "%s">>
      [] err = "ErrExpectedRegularFile" ->
           <<"expected", "regular", "file", ":", "%s">>
      [] err = "NotExist" ->
           <<"open", "%s", ":", "no", "such", "file", "or", "directory">>
      [] err = "json" -> <<"invalid", "character">>
      [] err = "io" -> <<"input/output", "error">>
      [] OTHER -> <<>>

RECURSIVE Contains(_, _)
\* strings.Contains, on words.
Contains(s, substr) ==
    IF Len(s) < Len(substr)
    THEN FALSE
    ELSE SubSeq(s, 1, Len(substr)) = substr \/ Contains(Tail(s), substr)

\* strings.Contains on the text of what Switch returns: the error of the
\* call, joined line by line with the errors of its rollback.
JoinedContains(err, rollbackErr, substr) ==
    \/ Contains(ErrorText(err), substr)
    \/ \E e \in rollbackErr : Contains(ErrorText(e.err), substr)

\* handleList: 404 for an unknown tool, 500 for an error, 200.
handleList(w, toolName) ==
    LET r == List(w)
    IN  IF ~getTool(toolName)
        THEN [err |-> "unknown tool", status |-> 404, list |-> <<>>]
        ELSE IF r.err # "nil"
        THEN [err |-> r.err, status |-> 500, list |-> <<>>]
        ELSE [err |-> "nil", status |-> 200, list |-> r.out]

\* handleCurrent: 404 for an unknown tool, 500 for an error, 200.
handleCurrent(w, toolName) ==
    LET r == Current(w)
    IN  IF ~getTool(toolName)
        THEN [err |-> "unknown tool", status |-> 404, out |-> ""]
        ELSE IF r.err # "nil"
        THEN [err |-> r.err, status |-> 500, out |-> ""]
        ELSE [err |-> "nil", status |-> 200, out |-> r.out]

\* handleSave: the tool, the JSON body, the name, then Save; the status of
\* an error of Save is chosen by the words of its text.
handleSave(w, toolName, decoded, profile, force) ==
    LET r == Save(w, profile, force)
    IN  IF ~getTool(toolName)
        THEN [w |-> w, err |-> "unknown tool", status |-> 404, path |-> 0]
        ELSE IF ~decoded
        THEN [w |-> w, err |-> "invalid request body", status |-> 400,
              path |-> 0]
        ELSE IF ~ValidateProfileName(profile)
        THEN [w |-> w, err |-> "validation", status |-> 400, path |-> 0]
        ELSE IF r.err = "nil"
        THEN [w |-> r.w, err |-> "nil", status |-> 201, path |-> 0]
        ELSE [w |-> r.w, err |-> r.err, path |-> r.path,
              status |->
                IF Contains(ErrorText(r.err), <<"already", "exists">>)
                THEN 409
                ELSE IF Contains(ErrorText(r.err), <<"not", "found">>)
                THEN 404
                ELSE 500]

\* A variant that answers 500 for every error of Switch.
handleSwitch_NoNotFound(w, toolName, profile, plan) ==
    LET r == Switch(w, profile, plan)
        none == [w |-> w, f |-> Return(Call(profile), "nil")]
    IN  IF ~getTool(toolName)
        THEN [r |-> [none EXCEPT !.f.err = "unknown tool"], status |-> 404]
        ELSE IF ~ValidateProfileName(profile)
        THEN [r |-> [none EXCEPT !.f.err = "validation"], status |-> 400]
        ELSE IF r.f.err = "nil"
        THEN [r |-> r, status |-> 200]
        ELSE [r |-> r, status |-> 500]

\* handleSwitch: the tool, the name, then Switch; 404 when the text of its
\* error holds "not found".
handleSwitch(w, toolName, profile, plan) ==
    LET r == Switch(w, profile, plan)
        none == [w |-> w, f |-> Return(Call(profile), "nil")]
    IN  IF ~getTool(toolName)
        THEN [r |-> [none EXCEPT !.f.err = "unknown tool"], status |-> 404]
        ELSE IF ~ValidateProfileName(profile)
        THEN [r |-> [none EXCEPT !.f.err = "validation"], status |-> 400]
        ELSE IF r.f.err = "nil"
        THEN [r |-> r, status |-> 200]
        ELSE [r |-> r,
              status |->
                IF JoinedContains(r.f.err, r.f.rollbackErr, <<"not", "found">>)
                THEN 404
                ELSE 500]

\* handleDelete: the tool, the name, then Delete; 404 when the text of its
\* error holds "not found".
handleDelete(w, toolName, profile) ==
    LET r == Delete(w, profile)
    IN  IF ~getTool(toolName)
        THEN [w |-> w, err |-> "unknown tool", status |-> 404,
              cleared |-> FALSE]
        ELSE IF ~ValidateProfileName(profile)
        THEN [w |-> w, err |-> "validation", status |-> 400,
              cleared |-> FALSE]
        ELSE IF r.err = "nil"
        THEN [w |-> r.w, err |-> "nil", status |-> 200,
              cleared |-> r.cleared]
        ELSE [w |-> r.w, err |-> r.err, cleared |-> FALSE,
              status |->
                IF Contains(ErrorText(r.err), <<"not", "found">>)
                THEN 404
                ELSE 500]

\* The requests of the routes.
HttpList(toolName) ==
    /\ Ready
    /\ LET r == handleList(fs, toolName) IN
       last' = [NoLast EXCEPT !.op = "list", !.tool = toolName,
                              !.err = r.err, !.status = r.status,
                              !.list = r.list]
    /\ pre' = fs
    /\ UNCHANGED <<fs, sw, since>>

HttpCurrent(toolName) ==
    /\ Ready
    /\ LET r == handleCurrent(fs, toolName) IN
       last' = [NoLast EXCEPT !.op = "current", !.tool = toolName,
                              !.err = r.err, !.status = r.status,
                              !.out = r.out]
    /\ pre' = fs
    /\ UNCHANGED <<fs, sw, since>>

HttpSave(toolName, decoded, profile, force) ==
    /\ Ready
    /\ LET r == handleSave(fs, toolName, decoded, profile, force) IN
       /\ fs' = r.w
       /\ last' = [NoLast EXCEPT !.op = "save", !.tool = toolName,
                                 !.profile = profile, !.force = force,
                                 !.err = r.err, !.status = r.status,
                                 !.path = r.path]
    /\ pre' = fs
    /\ since' = NoSince
    /\ UNCHANGED sw

HttpSwitch(toolName, profile, plan) ==
    /\ Ready
    /\ LET h == handleSwitch(fs, toolName, profile, plan) IN
       /\ fs' = h.r.w
       /\ last' = [NoLast EXCEPT !.op = "switch", !.tool = toolName,
                                 !.profile = profile, !.err = h.r.f.err,
                                 !.at = h.r.f.at,
                                 !.rollbackErr = h.r.f.rollbackErr,
                                 !.status = h.status]
    /\ pre' = fs
    /\ since' = NoSince
    /\ UNCHANGED sw

HttpDelete(toolName, profile) ==
    /\ Ready
    /\ LET r == handleDelete(fs, toolName, profile) IN
       /\ fs' = r.w
       /\ last' = [NoLast EXCEPT !.op = "delete", !.tool = toolName,
                                 !.profile = profile, !.err = r.err,
                                 !.status = r.status, !.cleared = r.cleared]
    /\ pre' = fs
    /\ since' = NoSince
    /\ UNCHANGED sw

\* The profile names of the requests.
HttpNames == {"p", "<custom>"}

NextHttp ==
    \/ \E toolName \in ToolNames : HttpList(toolName)
    \/ \E toolName \in ToolNames : HttpCurrent(toolName)
    \/ \E toolName \in ToolNames, decoded \in BOOLEAN,
          profile \in HttpNames, force \in BOOLEAN :
          HttpSave(toolName, decoded, profile, force)
    \/ \E toolName \in ToolNames, profile \in HttpNames, plan \in FaultPlans :
          HttpSwitch(toolName, profile, plan)
    \/ \E toolName \in ToolNames, profile \in HttpNames :
          HttpDelete(toolName, profile)
    \/ Forget
    \/ \E i \in Files, c \in Contents : EnvWriteLive(i, c)
    \/ \E i \in Files : EnvRemoveLive(i)
    \/ \E i \in Files, node \in TamperedLive : EnvTamperLive(i, node)
    \/ \E profile \in TamperedProfiles, i \in Files,
          node \in TamperedProfileFile :
          EnvTamperProfileFile(profile, i, node)
    \/ \E node \in TamperedMarker : EnvTamperMarker(node)

SpecHttp == Init /\ [][NextHttp]_vars

\* ---------------------------------------------------------------- claims

Regular(node) == node.k = "file"
\* The profile directory exists and holds a regular file for every path.
Intact(w, profile) ==
    Exists(w, profile) /\ \A i \in Files : Regular(w.profiles[profile].files[i])
\* What the marker of w reads back as.
MarkerName(w) == readCurrentProfile(w.marker)
SwitchFailed == last.op = "switch" /\ last.err # "nil"
SwitchOk == last.op = "switch" /\ last.err = "nil"

\* C1: when Switch returns an error and its rollback steps (if any) all
\* succeeded, every managed live file is as before the call (present or
\* absent, same bytes) and the marker reads back as before the call.
C1_FailedSwitchRestores ==
    (SwitchFailed /\ last.rollbackErr = {}) =>
        /\ \A i \in Files : fs.live[i] = pre.live[i]
        /\ MarkerName(fs) = MarkerName(pre)

\* The rename of the second staged file failed after the first live file had
\* been replaced by different bytes, while another profile was active.
C1_Witness ==
    /\ SwitchFailed /\ last.rollbackErr = {}
    /\ last.at = <<"commit", 2>>
    /\ Regular(pre.live[1])
    /\ pre.live[1] # pre.profiles[last.profile].files[1]
    /\ MarkerName(pre).profile \notin {"", last.profile}

\* C2: when Switch(t,p) returns without error, every live file is a regular
\* file with the bytes of p's file of the same base name, the marker names p
\* and Current(t) returns exactly p.
C2_SwitchInstallsProfile ==
    SwitchOk =>
        /\ \A i \in Files :
             /\ Regular(fs.live[i])
             /\ Regular(fs.profiles[last.profile].files[i])
             /\ fs.live[i].c = fs.profiles[last.profile].files[i].c
        /\ MarkerName(fs) = [err |-> "nil", profile |-> last.profile]
        /\ Current(fs) = [out |-> last.profile, err |-> "nil"]

\* A Switch to the profile that was already active, from live files that had
\* been modified since.
C2_Witness ==
    /\ SwitchOk
    /\ MarkerName(pre) = [err |-> "nil", profile |-> last.profile]
    /\ \E i \in Files : Regular(pre.live[i]) /\ pre.live[i] # fs.live[i]
    /\ fs.live[1].c # fs.live[2].c

\* C3: after a successful Switch(t,p) followed only by writes to live files,
\* Current(t) returns "p (modified)" while some live file differs from the
\* bytes the switch installed, and "p" when all of them are those bytes.
C3_DriftDetected ==
    (last.op = "current" /\ since.valid) =>
        /\ last.err = "nil"
        /\ (\A i \in Files : fs.live[i].c = since.bytes[i])
              => last.out = since.profile
        /\ (\E i \in Files : fs.live[i].c # since.bytes[i])
              => last.out = since.profile \o " (modified)"

\* Only the second live file was changed, and Current says modified.
C3_Witness ==
    /\ last.op = "current" /\ since.valid
    /\ fs.live[1].c = since.bytes[1]
    /\ fs.live[2].c # since.bytes[2]
    /\ last.out = since.profile \o " (modified)"

\* Some path the operation has to read or write is a symlink.
SymlinkInTheWay(w, op, profile, force) ==
    LET live == \E i \in Files : w.live[i].k = "symlink"
        stored == \E i \in Files : w.profiles[profile].files[i].k = "symlink"
        marker == w.marker.k = "symlink"
    IN  CASE op = "current" -> marker
          [] op = "save" ->
               /\ ValidateProfileName(profile)
               /\ (force \/ ~Exists(w, profile))
               /\ live
          [] op = "switch" ->
               /\ ValidateProfileName(profile) /\ Exists(w, profile)
               /\ (live \/ stored \/ marker)
          [] op = "delete" ->
               ValidateProfileName(profile) /\ Exists(w, profile) /\ marker
          [] OTHER -> FALSE

\* C5: Save, Switch, Current and Delete return an error when a path they
\* must read or write (a live config path, a file of the profile, the
\* marker current.json) is a symlink.
C5_SymlinkIsAnError ==
    SymlinkInTheWay(pre, last.op, last.profile, last.force) => last.err # "nil"

\* The first pair of matches that is not a clean match, if any.
CleanMatch(w, profile, i) ==
    /\ Regular(w.profiles[profile].files[i])
    /\ Regular(w.live[i])
    /\ w.live[i].c = w.profiles[profile].files[i].c

CurrentOf(w) == MarkerName(w).profile
NamesProfile(w) == MarkerName(w).err = "nil" /\ Exists(w, CurrentOf(w))

\* C6 as stated, for a marker that is a regular file and a profile that has
\* all its files: whenever the marker names an existing profile and some live
\* config path is a symlink, Current returns ErrSymlinkNotAllowed.
C6_Original ==
    (/\ last.op = "current"
     /\ pre.marker.k = "file"
     /\ NamesProfile(pre) /\ Intact(pre, CurrentOf(pre))
     /\ \E i \in Files : pre.live[i].k = "symlink")
        => last.err = "ErrSymlinkNotAllowed"

\* C6, amended: when the marker names an existing, intact profile, a live
\* config path is a symlink and every managed file before it in declared
\* order matches its profile copy, Current returns ErrSymlinkNotAllowed; and
\* whatever the other files are, Current never answers Active while a live
\* path is a symlink.
C6_SymlinkRejected ==
    (/\ last.op = "current"
     /\ NamesProfile(pre)
     /\ \E i \in Files : pre.live[i].k = "symlink")
        => /\ last.out # CurrentOf(pre)
           /\ (/\ Intact(pre, CurrentOf(pre))
               /\ \E i \in Files :
                    /\ pre.live[i].k = "symlink"
                    /\ \A j \in 1..(i - 1) : CleanMatch(pre, CurrentOf(pre), j))
                 => last.err = "ErrSymlinkNotAllowed"

\* The second live path is the symlink and the first file matches.
C6_Witness ==
    /\ last.op = "current"
    /\ NamesProfile(pre) /\ Intact(pre, CurrentOf(pre))
    /\ pre.live[2].k = "symlink"
    /\ CleanMatch(pre, CurrentOf(pre), 1)
    /\ last.err = "ErrSymlinkNotAllowed"

\* C7: when the marker names a profile whose directory does not exist,
\* Current returns "<custom>" and no error.
C7_OrphanedMarkerIsCustom ==
    (/\ last.op = "current"
     /\ MarkerName(pre).err = "nil"
     /\ CurrentOf(pre) # ""
     /\ ~Exists(pre, CurrentOf(pre)))
        => last.out = "<custom>" /\ last.err = "nil"

C7_Witness ==
    /\ last.op = "current"
    /\ pre.marker.k = "file"
    /\ MarkerName(pre).err = "nil"
    /\ CurrentOf(pre) # ""
    /\ ~Exists(pre, CurrentOf(pre))
    /\ last.out = "<custom>"

\* Every profile directory that exists holds a file for every config path.
Complete(w) ==
    \A n \in Names :
        w.profiles[n].exists =>
            \A i \in Files : w.profiles[n].files[i].k # "absent"

\* C8: Save, Switch and Delete, successful or failed, leave every existing
\* profile directory with one file for each config path.
C8_ProfilesStayComplete ==
    (last.op \in {"save", "switch", "delete"} /\ Complete(pre)) => Complete(fs)

\* C9: Save without force on an existing profile returns
\* ErrProfileAlreadyExists and leaves the profile's files as they were.
C9_SaveWithoutForceRefuses ==
    (/\ last.op = "save" /\ ~last.force
     /\ ValidateProfileName(last.profile)
     /\ pre.profiles[last.profile].exists)
        => /\ last.err = "ErrProfileAlreadyExists"
           /\ fs.profiles[last.profile] = pre.profiles[last.profile]

\* The live files could have been saved and differ from the saved ones.
C9_Witness ==
    /\ last.op = "save" /\ ~last.force
    /\ last.err = "ErrProfileAlreadyExists"
    /\ Intact(pre, last.profile)
    /\ \A i \in Files :
         /\ Regular(pre.live[i])
         /\ pre.live[i] # pre.profiles[last.profile].files[i]

\* C10: when Save(t,n,force) returns without error, profile n exists and
\* holds, for every config path, a regular file with the bytes the live file
\* had when Save was called.
C10_SaveCopiesLiveFiles ==
    (last.op = "save" /\ last.err = "nil") =>
        /\ Exists(fs, last.profile)
        /\ \A i \in Files :
             /\ Regular(pre.live[i])
             /\ fs.profiles[last.profile].files[i] = File(pre.live[i].c)

\* A forced Save over a profile none of whose old files had the new bytes.
C10_Witness ==
    /\ last.op = "save" /\ last.err = "nil" /\ last.force
    /\ Intact(pre, last.profile)
    /\ \A i \in Files :
         pre.profiles[last.profile].files[i] # fs.profiles[last.profile].files[i]
    /\ fs.profiles[last.profile].files[1] # fs.profiles[last.profile].files[2]

\* C4: after a Switch call was killed at any point, a later Switch(t,q) to
\* an existing profile q with all its files, run to its return without I/O
\* fault, succeeds and leaves every live file equal to q's copy and the
\* marker naming q, whatever the killed call left behind.
C4_SwitchAfterKillConverges ==
    (/\ last.op = "switch"
     /\ fs.stale.kills > 0
     /\ Intact(pre, last.profile))
        => /\ last.err = "nil"
           /\ \A i \in Files : fs.live[i] = fs.profiles[last.profile].files[i]
           /\ MarkerName(fs) = [err |-> "nil", profile |-> last.profile]

\* The earlier call was killed between its two renames, leaving staged files
\* and a rollback directory; the later Switch went to another profile than
\* the one the marker named.
C4_Witness ==
    /\ SwitchOk
    /\ fs.stale.at = <<"commit", 2>>
    /\ fs.stale.stage > 0 /\ fs.stale.rollback > 0
    /\ MarkerName(pre).profile \notin {"", last.profile}
    /\ \E i \in Files : pre.live[i] # fs.live[i]

\* The first live file, in declared order, that is not a regular file is a
\* missing one, at position i.
FirstMissing(w, i) ==
    /\ w.live[i].k = "absent"
    /\ \A j \in 1..(i - 1) : Regular(w.live[j])

\* C11 as stated, for a valid name, a store of complete profiles and live
\* files that are regular or missing: whenever a live file does not exist,
\* Save returns ErrConfigFileNotFound.
C11_Original ==
    (/\ last.op = "save"
     /\ ValidateProfileName(last.profile)
     /\ \A n \in Names : pre.profiles[n].exists => Intact(pre, n)
     /\ \A i \in Files : pre.live[i].k \in {"absent", "file"}
     /\ \E i \in Files : pre.live[i].k = "absent")
        => last.err = "ErrConfigFileNotFound"

\* C11, amended: when Save gets as far as copying (the name is valid, and the
\* profile does not exist yet or force is set) and the first live file that
\* is not a regular file is a missing one, Save returns ErrConfigFileNotFound
\* for that path.
C11_MissingLiveFileReported ==
    \A i \in Files :
        (/\ last.op = "save"
         /\ ValidateProfileName(last.profile)
         /\ (last.force \/ ~Exists(pre, last.profile))
         /\ FirstMissing(pre, i))
            => last.err = "ErrConfigFileNotFound" /\ last.path = i

\* The second live file is the missing one; the first had been copied.
C11_Witness ==
    /\ last.op = "save"
    /\ last.err = "ErrConfigFileNotFound" /\ last.path = 2
    /\ FirstMissing(pre, 2)
    /\ fs.profiles[last.profile].files[1] = pre.live[1]

\* C12: a successful Delete(t,n) returns cleared exactly when the marker
\* named n before the call; after deleting the active profile the marker
\* reads back empty and Current returns "<custom>"; after deleting another
\* profile the marker and the result of Current are as before the call.
C12_DeleteClearsActiveOnly ==
    (last.op = "delete" /\ last.err = "nil") =>
        /\ last.cleared <=> (MarkerName(pre).profile = last.profile)
        /\ last.cleared =>
             /\ MarkerName(fs) = [err |-> "nil", profile |-> ""]
             /\ Current(fs) = [out |-> "<custom>", err |-> "nil"]
        /\ ~last.cleared =>
             /\ fs.marker = pre.marker
             /\ Current(fs) = Current(pre)

\* The deleted profile was the active one and Current named it.
C12_Witness ==
    /\ last.op = "delete" /\ last.err = "nil" /\ last.cleared
    /\ Current(pre).out = last.profile
    /\ \E n \in Names : Exists(fs, n)

\* C13: Delete(t,n), successful or failed, active profile or not, leaves
\* every managed live config file as it was.
C13_DeleteKeepsLiveFiles ==
    last.op = "delete" =>
        /\ fs.live = pre.live
        /\ fs.liveDir = pre.liveDir

\* The active profile was deleted while both live files were there.
C13_Witness ==
    /\ last.op = "delete" /\ last.cleared
    /\ \A i \in Files : Regular(fs.live[i])
    /\ fs.live[1] # fs.live[2]

\* C14: Switch(t,n) and Delete(t,n) with a valid name n whose profile
\* directory does not exist return ErrProfileNotFound and leave the whole
\* filesystem as it was: live files, marker, profiles, no staged file, no
\* rollback directory.
C14_NotFoundChangesNothing ==
    (/\ last.op \in {"switch", "delete"}
     /\ ValidateProfileName(last.profile)
     /\ ~Exists(pre, last.profile))
        => /\ last.err = "ErrProfileNotFound"
           /\ fs = pre

\* Switch to a missing profile while another profile is stored and active,
\* and the directory of the live files does not exist.
C14_Witness ==
    /\ last.op = "switch"
    /\ last.err = "ErrProfileNotFound"
    /\ \E n \in Names : Exists(pre, n) /\ MarkerName(pre).profile = n
    /\ \E i \in Files : pre.live[i].k = "absent"

\* The names of ListNames in ascending lexicographic order.
ListAscending == <<"alpha", "personal", "work">>

\* C15: List returns the names of the existing profile directories in
\* ascending lexicographic order and no error, and the empty list while the
\* profiles directory does not exist.
C15_ListIsSorted ==
    last.op = "list" =>
        /\ last.err = "nil"
        /\ last.list = SelectSeq(ListAscending, LAMBDA n : Exists(pre, n))
        /\ ~pre.profilesDir => last.list = <<>>

\* The three profiles were saved in the order work, personal, alpha.
C15_Witness ==
    /\ last.op = "list"
    /\ since.saved = <<"work", "personal", "alpha">>
    /\ last.list = <<"alpha", "personal", "work">>

\* The rule of C16: not empty, at most 64 characters, only ASCII letters,
\* digits, hyphen and underscore.
AcceptedByRule(s) ==
    /\ Len(s) >= 1
    /\ Len(s) <= maxLen
    /\ \A i \in 1..Len(s) : s[i] \in Allowed

\* C16: ValidateProfileName accepts a string exactly when it is non-empty,
\* at most 64 characters long and made only of ASCII letters, digits, hyphen
\* and underscore; Save, Switch and Delete return the validation error for
\* exactly the other strings.
C16_ValidNamesAreTheAllowedOnes ==
    /\ last.op = "validate" =>
         (last.err = "nil" <=> AcceptedByRule(last.chars))
    /\ last.op \in {"save", "switch", "delete"} =>
         (last.err = "validation" <=> ~AcceptedByRule(NameChars(last.profile)))

\* A name of exactly 64 allowed characters, of more than one kind, accepted.
C16_Witness ==
    /\ last.op = "validate"
    /\ last.err = "nil"
    /\ Len(last.chars) = maxLen
    /\ last.chars[maxLen] # "a"

\* C17: Save, Switch and Delete called with a name that fails validation
\* return the validation error and leave the whole filesystem as it was:
\* directories, profile files, marker, staged files, rollback directory.
C17_InvalidNameChangesNothing ==
    (/\ last.op \in {"save", "switch", "delete"}
     /\ ~AcceptedByRule(NameChars(last.profile)))
        => /\ last.err = "validation"
           /\ fs = pre

\* A forced Save under a name with the reserved suffix, over a store that
\* holds the profile the name is made from.
C17_Witness ==
    /\ last.op = "save" /\ last.force
    /\ last.profile = "p (modified)"
    /\ last.err = "validation"
    /\ Intact(pre, "p")
    /\ MarkerName(pre).profile = "p"

\* What Current can return: "<custom>", a name, or a name with the suffix.
Renderings ==
    {[v |-> "custom", n |-> ""]}
        \cup {[v |-> v, n |-> n] : v \in {"active", "modified"}, n \in ValidNamed}
RenderName(r) ==
    CASE r.v = "custom" -> "<custom>"
      [] r.v = "active" -> r.n
      [] r.v = "modified" -> r.n \o " (modified)"
RenderChars(v, s) ==
    CASE v = "custom" -> CustomChars
      [] v = "active" -> s
      [] v = "modified" -> s \o ModifiedSuffix
AcceptedInputs == {t \in ValidateInputs : ValidateChars(t)}

\* C18: no accepted name is "<custom>" or ends with " (modified)"; the
\* renderings of two different (state, name) pairs with accepted names are
\* different strings, and what Current returns is the rendering of one pair.
C18_RenderingsAreDistinct ==
    /\ (last.op = "validate" /\ last.err = "nil") =>
         /\ last.chars # CustomChars
         /\ ~HasSuffix(last.chars, ModifiedSuffix)
         /\ \A t \in AcceptedInputs, v1, v2 \in {"custom", "active", "modified"} :
              RenderChars(v1, last.chars) = RenderChars(v2, t)
                  => v1 = v2 /\ (v1 # "custom" => last.chars = t)
    /\ (last.op = "current" /\ last.err = "nil") =>
         Cardinality({r \in Renderings : RenderName(r) = last.out}) = 1

\* Current returned a name with the suffix, for a marker Switch had written.
C18_Witness ==
    /\ last.op = "current"
    /\ pre.marker = Node("file", Marshal("p"))
    /\ last.out = "p (modified)"

\* The first file of the profile, in declared order, that is not a regular
\* file is a missing one, at position i.
FirstMissingInProfile(w, profile, i) ==
    /\ w.profiles[profile].files[i].k = "absent"
    /\ \A j \in 1..(i - 1) : Regular(w.profiles[profile].files[j])

\* C19: Switch(t,p) on an existing profile directory that lacks one of its
\* files fails during staging, with ErrProfileMissingFile at the missing
\* file unless an I/O fault stopped the staging at or before it; no live file
\* and no marker has been changed and no staged file is left.
C19_MissingProfileFileStopsStaging ==
    \A i \in Files :
        (/\ last.op = "switch"
         /\ ValidateProfileName(last.profile)
         /\ Exists(pre, last.profile)
         /\ FirstMissingInProfile(pre, last.profile, i))
            => /\ last.at[1] = "stage" /\ last.at[2] <= i
               /\ last.err \in {"ErrProfileMissingFile", "io"}
               /\ last.err # "io" =>
                    last.err = "ErrProfileMissingFile" /\ last.at[2] = i
               /\ last.err # "ErrProfileNotFound"
               /\ fs.live = pre.live
               /\ fs.marker = pre.marker
               /\ fs.tmp = NoFiles

\* The second file of the profile is the missing one, and its first file
\* differs from the live one it would have replaced.
C19_Witness ==
    /\ last.op = "switch"
    /\ last.err = "ErrProfileMissingFile"
    /\ last.at = <<"stage", 2>>
    /\ Regular(pre.profiles[last.profile].files[1])
    /\ Regular(pre.live[1])
    /\ pre.live[1] # pre.profiles[last.profile].files[1]

\* C20: when Switch returns, by whatever path, none of its staged files is
\* left beside the live files and its rollback directory is gone.
C20_SwitchLeavesNoTemporaries ==
    last.op = "switch" =>
        /\ \A i \in Files : fs.tmp[i] = Absent
        /\ ~fs.rb.exists
        /\ fs.stale = pre.stale

\* Switch failed at the marker write, after it had staged and renamed every
\* file and made its rollback directory, and rolled back.
C20_Witness ==
    /\ SwitchFailed
    /\ last.at = <<"marker", 1>>
    /\ \A i \in Files : fs.tmp[i] = Absent
    /\ ~fs.rb.exists
    /\ \A i \in Files : Regular(pre.live[i])

\* C21: when Switch returns rollback failures, it returns them together with
\* the failure of the rename or marker write that started the rollback: the
\* original failure is there, and there is a rollback failure for every live
\* file that was not put back and for a marker that could not be rewritten.
C21_BothFailuresReturned ==
    (last.op = "switch" /\ last.rollbackErr # {}) =>
        /\ last.err # "nil"
        /\ last.at \in RollbackTriggers
        /\ \A i \in Files :
             fs.live[i] # pre.live[i] => \E e \in last.rollbackErr : e.at = i
        /\ (MarkerName(pre).err = "nil" /\ rejectNonRegularFile(pre.marker) # "nil")
             => \E e \in last.rollbackErr :
                  e.at = 0 /\ e.err = rejectNonRegularFile(pre.marker)

\* A restore failed and the marker could not be rewritten either: two
\* rollback failures beside the original one.
C21_Witness ==
    /\ SwitchFailed
    /\ Cardinality(last.rollbackErr) = 2
    /\ \E i \in Files : fs.live[i] # pre.live[i]

\* C22: when the marker cannot be read as Switch starts, Switch goes on all
\* the same: if it succeeds the marker names the target profile; if it fails
\* later the marker is left as it was, no failure to write it is reported,
\* and the live files are as before unless a restore failed.
C22_UnreadableMarkerTolerated ==
    (/\ last.op = "switch"
     /\ MarkerName(pre).err # "nil"
     /\ ValidateProfileName(last.profile)
     /\ Exists(pre, last.profile))
        => /\ last.err # "json"
           /\ last.err = "nil" =>
                MarkerName(fs) = [err |-> "nil", profile |-> last.profile]
           /\ last.err # "nil" =>
                /\ fs.marker = pre.marker
                /\ \A e \in last.rollbackErr : e.at # 0
                /\ last.rollbackErr = {} => fs.live = pre.live

\* The marker held invalid JSON and the second rename failed after the
\* first live file had been replaced: the file is back, the marker untouched.
C22_Witness ==
    /\ SwitchFailed
    /\ pre.marker = Node("file", Garbage)
    /\ last.at = <<"commit", 2>>
    /\ last.rollbackErr = {}
    /\ Regular(pre.live[1])
    /\ pre.live[1] # pre.profiles[last.profile].files[1]
    /\ fs.live = pre.live
    /\ fs.marker = pre.marker

\* The call has made the profile directory and is copying, or has copied.
PastMkdir(g) ==
    \/ g.pc = "copy"
    \/ g.pc = "done" /\ g.err \notin {"validation", "ErrProfileAlreadyExists"}

\* C23: of two Save calls without force for the same new name, running with
\* their filesystem calls interleaved, at most one gets past the creation
\* of the directory, and when both have returned exactly one of them has
\* returned ErrProfileAlreadyExists.
C23_OneSaveWins ==
    (/\ sw.pc = "saving"
     /\ sw.saves[1].profile = sw.saves[2].profile
     /\ ~sw.saves[1].force /\ ~sw.saves[2].force
     /\ ~Exists(pre, sw.saves[1].profile))
        => /\ ~(PastMkdir(sw.saves[1]) /\ PastMkdir(sw.saves[2]))
           /\ (sw.saves[1].pc = "done" /\ sw.saves[2].pc = "done") =>
                Cardinality({k \in 1..2 :
                    sw.saves[k].err = "ErrProfileAlreadyExists"}) = 1

\* The second call has returned ErrProfileAlreadyExists while the first is
\* still copying its second file.
C23_Witness ==
    /\ sw.pc = "saving"
    /\ sw.saves[1].profile = sw.saves[2].profile
    /\ ~sw.saves[1].force /\ ~sw.saves[2].force
    /\ sw.saves[1].pc = "copy" /\ sw.saves[1].i = 2
    /\ sw.saves[2].pc = "done"
    /\ sw.saves[2].err = "ErrProfileAlreadyExists"

\* C24 as stated, for a marker that is a regular file: when the marker names
\* an existing profile with all its files and a live file is absent, Current
\* returns the name with " (modified)" and no error.
C24_Original ==
    (/\ last.op = "current"
     /\ pre.marker.k = "file"
     /\ NamesProfile(pre) /\ Intact(pre, CurrentOf(pre))
     /\ \E i \in Files : pre.live[i].k = "absent")
        => /\ last.err = "nil"
           /\ last.out = CurrentOf(pre) \o " (modified)"

\* C24, amended: when the marker names an existing profile with all its
\* files, a live file is absent and every live path before it in declared
\* order is a regular file, Current returns the name with " (modified)" and
\* no error; and Current never answers Active while a live file is absent.
C24_AbsentLiveFileIsModified ==
    (/\ last.op = "current"
     /\ NamesProfile(pre) /\ Intact(pre, CurrentOf(pre))
     /\ \E i \in Files : pre.live[i].k = "absent")
        => /\ last.out # CurrentOf(pre)
           /\ (\E i \in Files : FirstMissing(pre, i))
                => /\ last.err = "nil"
                   /\ last.out = CurrentOf(pre) \o " (modified)"

\* The second live file is the absent one and the first matches its copy.
C24_Witness ==
    /\ last.op = "current"
    /\ NamesProfile(pre) /\ Intact(pre, CurrentOf(pre))
    /\ pre.live[2].k = "absent"
    /\ CleanMatch(pre, CurrentOf(pre), 1)
    /\ last.out = CurrentOf(pre) \o " (modified)"

\* ---------------------------------------------------------------- C25

\* A request to a tool the server knows, with a body it could decode.
Served == last.tool \in tools /\ last.err # "invalid request body"
\* The request named a profile, and the name fails validation.
InvalidName ==
    last.op \in {"save", "switch", "delete"}
        /\ ~ValidateProfileName(last.profile)

\* C25 as stated: 404 for an unknown tool and for a switch or delete of a
\* profile that does not exist, 409 for a non-forced save of an existing
\* name, 400 for an invalid name, 500 for any other error of the core, 201
\* for a successful save, 200 for every other success.
C25_Original ==
    (last.tool # "" /\ last.err # "invalid request body") =>
        last.status =
            IF last.tool \notin tools THEN 404
            ELSE IF InvalidName THEN 400
            ELSE IF last.op \in {"switch", "delete"}
                      /\ ~Exists(pre, last.profile) THEN 404
            ELSE IF last.op = "save" /\ ~last.force
                      /\ Exists(pre, last.profile) THEN 409
            ELSE IF last.err # "nil" THEN 500
            ELSE IF last.op = "save" THEN 201
            ELSE 200

\* C25, amended: the facade answers 404 for an unknown tool, for a switch or
\* delete of a profile that does not exist and for a save that fails with
\* ErrConfigFileNotFound (a live config file is missing); 409 for a
\* non-forced save of an existing name; 400 for a body that does not decode
\* and for an invalid name; 500 for every other error of the core; 201 for
\* a successful save and 200 for every other success.
C25_StatusOfEachOutcome ==
    last.tool # "" =>
        last.status =
            IF last.tool \notin tools THEN 404
            ELSE IF ~Served THEN 400
            ELSE IF InvalidName THEN 400
            ELSE IF last.op \in {"switch", "delete"}
                      /\ ~Exists(pre, last.profile) THEN 404
            ELSE IF last.op = "save" /\ ~last.force
                      /\ Exists(pre, last.profile) THEN 409
            ELSE IF last.op = "save"
                      /\ last.err = "ErrConfigFileNotFound" THEN 404
            ELSE IF last.err # "nil" THEN 500
            ELSE IF last.op = "save" THEN 201
            ELSE 200

\* A save of a valid, new name was answered 404: a live file was missing.
C25_Witness ==
    /\ last.op = "save" /\ Served /\ ~InvalidName
    /\ ~Exists(pre, last.profile)
    /\ \E i \in Files : FirstMissing(pre, i)
    /\ last.status = 404

\* ---------------------------------------------------------------- C26

\* C26: while a Switch runs, its rollback included, every managed live path
\* holds either what it held when Switch was called or the regular file of
\* the profile: no live file is ever seen truncated or partly written.
C26_LiveChangesAreAtomic ==
    sw.pc # "idle" =>
        \A i \in Files :
            \/ fs.live[i] = pre.live[i]
            \/ /\ Regular(pre.profiles[sw.profile].files[i])
               /\ fs.live[i] = File(pre.profiles[sw.profile].files[i].c)

\* ---------------------------------------------------------------- C27

\* C27: while Switch stages and backs up, the live files stay as they were
\* at the call; when the first commit rename is due, every file is staged
\* with the bytes of the profile and every live file is backed up or
\* recorded as absent; and whenever a live file has changed during the
\* call, the backup of every file is in the rollback directory.
C27_StageAndBackupBeforeCommit ==
    LET BackedUp ==
            /\ Len(sw.rollbackEntries) = NFiles
            /\ \A i \in Files :
                 /\ sw.rollbackEntries[i].existed = (pre.live[i].k # "absent")
                 /\ sw.rollbackEntries[i].existed =>
                        fs.rb.files[i] = pre.live[i]
    IN  /\ sw.pc \in {"stage", "mkrb", "backup"} => fs.live = pre.live
        /\ (sw.pc = "commit" /\ sw.i = 1) =>
             /\ fs.live = pre.live
             /\ \A i \in Files :
                  fs.tmp[i] = File(pre.profiles[sw.profile].files[i].c)
             /\ BackedUp
        /\ (sw.pc # "idle" /\ fs.live # pre.live) => BackedUp

\* The first live file has been replaced, the second is about to be; one of
\* the live files did not exist at the call.
C27_Witness ==
    /\ sw.pc = "commit" /\ sw.i = 2
    /\ fs.live[1] # pre.live[1]
    /\ \E i \in Files : pre.live[i].k = "absent"
    /\ \E i \in Files : pre.live[i].k = "file"

\* ---------------------------------------------------------------- C28

\* C28: a running Switch(t,p) -- every state of it being one an interruption
\* can leave -- has the marker as it was at the call until the renames are
\* done; and when the marker did not name p at the call and names p now,
\* every live file holds the bytes of p's file.
C28_MarkerAfterRenames ==
    sw.pc # "idle" =>
        /\ sw.pc \in {"stage", "mkrb", "backup", "commit", "marker"} =>
               fs.marker = pre.marker
        /\ (/\ MarkerName(pre).profile # sw.profile
            /\ MarkerName(fs).profile = sw.profile) =>
               \A i \in Files :
                   fs.live[i] = File(pre.profiles[sw.profile].files[i].c)

\* The marker has just been written, switching away from another profile
\* whose live files differed.
C28_Witness ==
    /\ sw.pc = "cleanup" /\ sw.err = "nil"
    /\ MarkerName(fs).profile = sw.profile
    /\ MarkerName(pre).profile \notin {"", sw.profile}
    /\ \A i \in Files : fs.live[i] # pre.live[i]

\* ---------------------------------------------------------------- C29

\* C29: when Switch has rolled back, every managed file whose entry did not
\* fail is as it was at the call -- the backup copied back, or the path
\* removed when it had been recorded as absent -- whether or not an earlier
\* entry failed; and the entry of a path that was absent at the call and
\* that the commit had not reached does not fail.
C29_RollbackRestoresEveryEntry ==
    (last.op = "switch" /\ last.at \in RollbackTriggers) =>
        \A i \in Files :
            LET failed == \E e \in last.rollbackErr : e.at = i
                reached == last.at[1] = "marker" \/ i < last.at[2]
            IN  /\ ~failed => fs.live[i] = pre.live[i]
                /\ (pre.live[i].k = "absent" /\ ~reached) => ~failed

\* The marker write failed after both renames; the restore of the first
\* entry failed, and the second path, absent at the call, was removed.
C29_Witness ==
    /\ last.op = "switch" /\ last.at = <<"marker", 1>>
    /\ \E e \in last.rollbackErr : e.at = 1
    /\ ~\E e \in last.rollbackErr : e.at = 2
    /\ fs.live[1] # pre.live[1]
    /\ pre.live[2].k = "absent" /\ fs.live[2].k = "absent"
    /\ Regular(pre.profiles[last.profile].files[2])

\* ---------------------------------------------------------------- C30

\* The integrity error of a node that is there and is not a regular file.
KindError(node) ==
    CASE node.k = "symlink" -> "ErrSymlinkNotAllowed"
      [] node.k = "dir" -> "ErrExpectedFileIsDir"
      [] OTHER -> "ErrExpectedRegularFile"

\* C30: when the marker names an existing profile, Current returns the name
\* exactly when every file is a clean match; otherwise the first file, in
\* declared order, that is not a clean match decides: ErrProfileMissingFile
\* when the profile's copy is absent, the integrity error of the profile's
\* copy when that is not a regular file, else the integrity error of the
\* live path when that is there and not a regular file, else
\* "<name> (modified)" -- whatever the later files are.
C30_FirstUncleanFileDecides ==
    (last.op = "current" /\ NamesProfile(pre)) =>
        LET p == CurrentOf(pre)
            clean(i) == CleanMatch(pre, p, i)
        IN  /\ (\A i \in Files : clean(i))
                   <=> (last.err = "nil" /\ last.out = p)
            /\ \A i \in Files :
                 (~clean(i) /\ \A j \in 1..(i - 1) : clean(j)) =>
                     LET src == pre.profiles[p].files[i]
                         dst == pre.live[i]
                     IN  IF src.k = "absent"
                         THEN last.err = "ErrProfileMissingFile"
                         ELSE IF src.k # "file"
                         THEN last.err = KindError(src)
                         ELSE IF dst.k \notin {"absent", "file"}
                         THEN last.err = KindError(dst)
                         ELSE /\ last.err = "nil"
                              /\ last.out = p \o " (modified)"

\* The first live file differs and the second path is a directory or the
\* profile's second file is missing: Current answered Modified.
C30_Witness ==
    /\ last.op = "current" /\ NamesProfile(pre)
    /\ Regular(pre.profiles[CurrentOf(pre)].files[1])
    /\ Regular(pre.live[1])
    /\ pre.live[1].c # pre.profiles[CurrentOf(pre)].files[1].c
    /\ \/ pre.live[2].k = "dir"
       \/ pre.profiles[CurrentOf(pre)].files[2].k = "absent"
    /\ last.out = CurrentOf(pre) \o " (modified)"

\* ---------------------------------------------------------------- C31

\* C31: a Switch that returns an error leaves current.json as it was; in
\* particular a marker file that did not exist at the call does not exist
\* afterwards.
C31_FailedSwitchKeepsMarkerFile ==
    SwitchFailed =>
        /\ fs.marker = pre.marker
        /\ pre.marker.k = "absent" => fs.marker.k = "absent"

\* ---------------------------------------------------------------- C32

\* Switch of profile gets as far as the marker write when nothing fails
\* before it: the profile is intact and the live paths are regular or absent.
ReachesMarkerWrite(w, profile) ==
    /\ ValidateProfileName(profile)
    /\ Exists(w, profile) /\ Intact(w, profile)
    /\ \A i \in Files : w.live[i].k \in {"absent", "file"}

\* C32: a Switch that gets to the marker write, and a Delete of the profile
\* the marker names, fail with ErrSymlinkNotAllowed when current.json is a
\* symlink, with ErrExpectedFileIsDir when it is a directory, with
\* ErrExpectedRegularFile when it is another node, and leave the node as it
\* was; when current.json is absent or a regular file the write fails only
\* with an I/O error, and after a successful call the marker reads back as
\* the name written.
C32_MarkerWriteRejectsNonRegular ==
    LET writes ==
            \/ /\ last.op = "switch" /\ ReachesMarkerWrite(pre, last.profile)
               /\ (last.err = "nil" \/ last.at = <<"marker", 1>>)
            \/ /\ last.op = "delete"
               /\ ValidateProfileName(last.profile)
               /\ Exists(pre, last.profile)
               /\ MarkerName(pre) = [err |-> "nil", profile |-> last.profile]
        written == IF last.op = "switch" THEN last.profile ELSE ""
    IN  writes =>
            CASE pre.marker.k = "symlink" ->
                   last.err = "ErrSymlinkNotAllowed" /\ fs.marker = pre.marker
              [] pre.marker.k = "dir" ->
                   last.err = "ErrExpectedFileIsDir" /\ fs.marker = pre.marker
              [] pre.marker.k = "other" ->
                   last.err = "ErrExpectedRegularFile"
                       /\ fs.marker = pre.marker
              [] OTHER ->
                   /\ last.err \in {"nil", "io"}
                   /\ last.err = "nil" =>
                        /\ fs.marker.k = "file"
                        /\ MarkerName(fs) =
                               [err |-> "nil", profile |-> written]

\* Switch got to the marker write and current.json was a fifo.
C32_Witness ==
    /\ last.op = "switch" /\ ReachesMarkerWrite(pre, last.profile)
    /\ last.at = <<"marker", 1>>
    /\ pre.marker.k = "other"
    /\ last.err = "ErrExpectedRegularFile"

\* ---------------------------------------------------------------- C33

\* C33: a non-forced Save of a name whose earlier non-forced Save failed
\* with ErrConfigFileNotFound, called when every live file has been created
\* since, succeeds.
C33_RetriedSaveSucceeds ==
    (/\ last.op = "save" /\ ~last.force
     /\ since.failed = last.profile
     /\ \A i \in Files : Regular(pre.live[i]))
        => last.err = "nil"

\* ---------------------------------------------------------------- C34

\* C34: a managed live file that is absent when Switch is called holds the
\* bytes of the profile's file, in an existing directory, after a Switch
\* that succeeds, and is absent again after a Switch that fails, unless the
\* rollback reports a failure for that file.
C34_AbsentLiveFileCreatedOrRemoved ==
    \A i \in Files :
        (last.op = "switch" /\ pre.live[i].k = "absent") =>
            /\ last.err = "nil" =>
                 /\ fs.liveDir
                 /\ fs.live[i] = File(pre.profiles[last.profile].files[i].c)
            /\ (last.err # "nil" /\ ~\E e \in last.rollbackErr : e.at = i) =>
                 fs.live[i].k = "absent"

\* The directory of the live files did not exist at the call; the marker
\* write failed after both files had been created, and both are gone again.
C34_Witness ==
    /\ last.op = "switch" /\ last.at = <<"marker", 1>>
    /\ last.rollbackErr = {}
    /\ ~pre.liveDir
    /\ \A i \in Files : fs.live[i].k = "absent"

\* ---------------------------------------------------------------- C35

C36_SaveKeepsMarkerAndLiveFiles ==
    last.op = "save" =>
        /\ fs.marker = pre.marker
        /\ fs.live = pre.live /\ fs.liveDir = pre.liveDir
        /\ pre.marker.k = "absent" =>
               Current(fs) = [out |-> "<custom>", err |-> "nil"]

\* The first Save of all succeeded: no profile and no marker before it.
C36_Witness ==
    /\ last.op = "save" /\ last.err = "nil"
    /\ \A n \in Names : ~Exists(pre, n)
    /\ pre.marker.k = "absent"
    /\ Exists(fs, last.profile)

\* ---------------------------------------------------------------- C37

\* C37: after Switch, successful or failed, every profile directory has the
\* files and bytes it had at the call, and List returns what it returned.
C37_SwitchKeepsProfileStore ==
    last.op = "switch" =>
        /\ fs.profiles = pre.profiles
        /\ fs.profilesDir = pre.profilesDir
        /\ List(fs) = List(pre)

\* A Switch between two stored profiles succeeded, and one failed in its
\* commit.
C37_Witness ==
    /\ last.op = "switch"
    /\ \A n \in Names : Exists(pre, n)
    /\ MarkerName(pre).profile \notin {"", last.profile}
    /\ last.err = "nil" \/ last.at[1] = "commit"
    /\ fs.live # pre.live \/ last.err # "nil"

\* ---------------------------------------------------------------- C38

\* C38: through every sequence of Save, Switch and Delete calls started
\* without a marker, current.json is absent or a regular file that reads as
\* the empty name or as a name that ValidateProfileName accepts and that a
\* successful Switch was called with.
C38_MarkerIsEmptyOrSwitchedName ==
    /\ fs.marker.k \in {"absent", "file"}
    /\ MarkerName(fs).err = "nil"
    /\ MarkerName(fs).profile # "" =>
           /\ ValidateProfileName(MarkerName(fs).profile)
           /\ MarkerName(fs).profile \in since.targets

\* A Switch to q failed and was rolled back after Switches to p and to q
\* had succeeded: the marker names p again.
C38_Witness ==
    /\ SwitchFailed /\ last.at \in RollbackTriggers /\ last.rollbackErr = {}
    /\ last.profile = "q"
    /\ since.targets = {"p", "q"}
    /\ MarkerName(fs).profile = "p"

\* ---------------------------------------------------------------- C39

C40_ForcedSaveClearsModified ==
    (/\ last.op = "save" /\ last.force /\ last.err = "nil"
     /\ MarkerName(pre) = [err |-> "nil", profile |-> last.profile]
     /\ Current(pre) = [out |-> last.profile \o " (modified)", err |-> "nil"])
        => Current(fs) = [out |-> last.profile, err |-> "nil"]

\* The live files had drifted from the active profile, and the forced Save
\* of that profile succeeded.
C40_Witness ==
    /\ last.op = "save" /\ last.force /\ last.err = "nil"
    /\ Current(pre) = [out |-> last.profile \o " (modified)", err |-> "nil"]
    /\ \E i \in Files : pre.profiles[last.profile].files[i] # pre.live[i]
    /\ \A i \in Files : fs.profiles[last.profile].files[i] = fs.live[i]

====
